---- MODULE Spec2Model ----
(***************************************************************************)
(* Conversation orchestrator of goaitools: the ChatWithState tool-calling  *)
(* loop, AppendToState, the state codec (encodeState / decodeState), the   *)
(* system-message discipline (buildMessages / stripLeadingSystemMessages)  *)
(* and the compaction hook, together with the OpenAI message wrapper that  *)
(* stores the raw JSON next to the parsed view.                            *)
(***************************************************************************)
EXTENDS Integers, Sequences, FiniteSets, TLC

(* ------------------------------ bounds --------------------------------- *)

\* longest list of message options (WithSystemMessage / WithUserMessage) in one call
MaxOpts == 2
\* longest stored history a caller hands back into a further call
MaxStateLen == 2
\* the backend asks for tools in its first MaxToolRounds responses of a call;
\* a later TOOL_CALLS response carries no call
MaxToolRounds == 1
\* MaxMessages of the configured MessageLimitCompactor
LimitK == 2

(* ------------------------- program constants --------------------------- *)

DefaultMaxIterations == 10
StateVersion == 1

RoleSystem == "system"
RoleUser == "user"
RoleAssistant == "assistant"
RoleTool == "tool"

FinishReasonStop == "stop"
FinishReasonToolCalls == "tool_calls"
FinishReasonLength == "length"
\* a finish reason the library does not know (e.g. "content_filter")
FinishReasonOther == "content_filter"

ProviderName == "openai"

(* ------------------------------- state --------------------------------- *)

VARIABLES
  MaxToolIterations,  \* Chat.MaxToolIterations
  Compactor,          \* Chat.Compactor: "none" (nil), "limit" or "custom"
  LogToolArguments,   \* Chat.LogToolArguments
  stored,             \* the state blob the caller keeps between calls
  pc,                 \* "idle", "loop" (inside ChatWithState), "return", "error"
  op,                 \* the call in progress or just finished: "chat", "append", "none"
  state,              \* the state argument of the call
  request,            \* chatRequest built from the options
  messages,           \* the working message list of ChatWithState
  iteration,          \* the loop counter of ChatWithState
  maxIter,            \* the resolved loop bound
  firstCall,          \* the message list handed to the first backend call
  lastCall,           \* the message list handed to the latest backend call
  finishes,           \* outcome of every backend call of this call, in order
  compactAt,          \* the iterations in which the compactor was invoked
  compacted,          \* what the compactor returned
  result,             \* what the call returned: text, newState, err
  executed,           \* the tool requests this call handed to the runner, in order
  origin,             \* per message of stored: "append" when an AppendToState put it
                      \* there after the last ChatWithState, "chat" otherwise
  codec,              \* a caller of encodeState and decodeState alone
  usages,             \* the token usage of every backend response of this call, in order
  compactionRequest,  \* the CompactionRequest handed to the compactor in this call
  compaction,         \* a caller of MessageLimitCompactor alone
  log,                \* the records the call in progress sent to Chat.SystemLogger
  inflight            \* the locals of the calls that run concurrently on the Chat

vars == <<MaxToolIterations, Compactor, stored, pc, op, state, request, messages,
          iteration, maxIter, firstCall, lastCall, finishes, compactAt, compacted,
          result, executed, origin, codec, usages, compactionRequest, compaction,
          LogToolArguments, log, inflight>>

config == <<MaxToolIterations, Compactor, LogToolArguments>>

(* --------------------------- small helpers ----------------------------- *)

DropFirst(s, n) == SubSeq(s, n + 1, Len(s))

(* ---------------------- OpenAI message wrapper ------------------------- *)

\* openai.Message: the fields the library knows
ParsedMessage(role, content, toolCalls, toolCallID) ==
  [role |-> role, content |-> content, tool_calls |-> toolCalls, tool_call_id |-> toolCallID]

\* a string holding a byte that is not valid UTF-8, and what json.Marshal
\* writes for it: the invalid byte replaced by U+FFFD
InvalidUTF8 == "<ff>"

ReplacementChar == "<fffd>"

\* json.Marshal coerces string values to valid UTF-8
toValidUTF8(str) == IF str = InvalidUTF8 THEN ReplacementChar ELSE str

\* json.Marshal of an openai.Message struct: only the known fields are written
jsonMarshalMessage(parsed) ==
  [ok |-> TRUE, role |-> parsed.role, content |-> toValidUTF8(parsed.content),
   tool_calls |-> parsed.tool_calls, tool_call_id |-> parsed.tool_call_id,
   extra |-> "none"]

\* json.Unmarshal into an openai.Message struct: unknown fields are ignored
jsonUnmarshalMessage(data) ==
  ParsedMessage(data.role, data.content, data.tool_calls, data.tool_call_id)

\* bytes that are not a valid message envelope
BadRaw ==
  [ok |-> FALSE, role |-> "", content |-> "", tool_calls |-> <<>>,
   tool_call_id |-> "", extra |-> "none"]

newMessage(parsed) == [rawJSON |-> jsonMarshalMessage(parsed), parsed |-> parsed]

unmarshalMessageFails(data) == ~data.ok

\* a bug that keeps the parsed view only
unmarshalMessage_NoRaw(data) == [rawJSON |-> BadRaw, parsed |-> jsonUnmarshalMessage(data)]

unmarshalMessage(data) == [rawJSON |-> data, parsed |-> jsonUnmarshalMessage(data)]

\* the message of a ChatCompletion response: the body is unmarshalled into
\* the response struct, and the bytes kept are json.Marshal of the parsed choice
ChatCompletionMessage(wire) ==
  [rawJSON |-> jsonMarshalMessage(jsonUnmarshalMessage(wire)),
   parsed |-> jsonUnmarshalMessage(wire)]

\* a bug that writes the parsed view again instead of the bytes kept
MarshalJSON_Reserialize(m) == jsonMarshalMessage(m.parsed)

MarshalJSON(m) == m.rawJSON

Role(m) == m.parsed.role

Content(m) == m.parsed.content

ToolCalls(m) == m.parsed.tool_calls

ToolCallID(m) == m.parsed.tool_call_id

NewSystemMessage(content) == newMessage(ParsedMessage(RoleSystem, content, <<>>, ""))

NewUserMessage(content) == newMessage(ParsedMessage(RoleUser, content, <<>>, ""))

NewToolMessage(toolCallID, content) ==
  newMessage(ParsedMessage(RoleTool, content, <<>>, toolCallID))

(* ----------------------------- state codec ----------------------------- *)

\* the absent state (nil ConversationState)
NilState ==
  [kind |-> "nil", version |-> 0, provider |-> "", processed_length |-> 0, messages |-> <<>>]

\* bytes that do not parse as the state wrapper
GarbageState ==
  [kind |-> "garbage", version |-> 0, provider |-> "", processed_length |-> 0, messages |-> <<>>]

\* a state of length zero
EmptyState ==
  [kind |-> "empty", version |-> 0, provider |-> "", processed_length |-> 0, messages |-> <<>>]

encodeState(msgs, processed_len) ==
  [kind |-> "json", version |-> StateVersion, provider |-> ProviderName,
   processed_length |-> processed_len,
   messages |-> [i \in 1..Len(msgs) |-> MarshalJSON(msgs[i])]]

\* a bug that accepts a state of any version
decodeState_AnyVersion(st) ==
  IF st.kind \in {"nil", "empty"}
    THEN [messages |-> <<>>, processedLength |-> 0, logged |-> ""]
  ELSE IF st.kind # "json"
    THEN [messages |-> <<>>, processedLength |-> 0, logged |-> "invalid_conversation_state"]
  ELSE IF st.provider # ProviderName
    THEN [messages |-> <<>>, processedLength |-> 0, logged |-> "provider_mismatch"]
  ELSE IF \E i \in 1..Len(st.messages) : unmarshalMessageFails(st.messages[i])
    THEN [messages |-> <<>>, processedLength |-> 0, logged |-> "message_unmarshal_failed"]
  ELSE [messages |-> [i \in 1..Len(st.messages) |-> unmarshalMessage(st.messages[i])],
        processedLength |-> st.processed_length, logged |-> ""]

\* a bug that accepts the state of any provider
decodeState_AnyProvider(st) ==
  IF st.kind \in {"nil", "empty"}
    THEN [messages |-> <<>>, processedLength |-> 0, logged |-> ""]
  ELSE IF st.kind # "json"
    THEN [messages |-> <<>>, processedLength |-> 0, logged |-> "invalid_conversation_state"]
  ELSE IF st.version # 1
    THEN [messages |-> <<>>, processedLength |-> 0, logged |-> "unsupported_state_version"]
  ELSE IF \E i \in 1..Len(st.messages) : unmarshalMessageFails(st.messages[i])
    THEN [messages |-> <<>>, processedLength |-> 0, logged |-> "message_unmarshal_failed"]
  ELSE [messages |-> [i \in 1..Len(st.messages) |-> unmarshalMessage(st.messages[i])],
        processedLength |-> st.processed_length, logged |-> ""]

\* a bug that discards the state of another provider without a report
decodeState_SilentMismatch(st) ==
  IF st.kind \in {"nil", "empty"}
    THEN [messages |-> <<>>, processedLength |-> 0, logged |-> ""]
  ELSE IF st.kind # "json"
    THEN [messages |-> <<>>, processedLength |-> 0, logged |-> "invalid_conversation_state"]
  ELSE IF st.version # 1
    THEN [messages |-> <<>>, processedLength |-> 0, logged |-> "unsupported_state_version"]
  ELSE IF st.provider # ProviderName
    THEN [messages |-> <<>>, processedLength |-> 0, logged |-> ""]
  ELSE IF \E i \in 1..Len(st.messages) : unmarshalMessageFails(st.messages[i])
    THEN [messages |-> <<>>, processedLength |-> 0, logged |-> "message_unmarshal_failed"]
  ELSE [messages |-> [i \in 1..Len(st.messages) |-> unmarshalMessage(st.messages[i])],
        processedLength |-> st.processed_length, logged |-> ""]

\* decodeState: the messages, the processed length, and the cause logged
\* through logError when the state is discarded ("" when nothing is logged)
decodeState(st) ==
  IF st.kind \in {"nil", "empty"}
    THEN [messages |-> <<>>, processedLength |-> 0, logged |-> ""]
  ELSE IF st.kind # "json"
    THEN [messages |-> <<>>, processedLength |-> 0, logged |-> "invalid_conversation_state"]
  ELSE IF st.version # 1
    THEN [messages |-> <<>>, processedLength |-> 0, logged |-> "unsupported_state_version"]
  ELSE IF st.provider # ProviderName
    THEN [messages |-> <<>>, processedLength |-> 0, logged |-> "provider_mismatch"]
  ELSE IF \E i \in 1..Len(st.messages) : unmarshalMessageFails(st.messages[i])
    THEN [messages |-> <<>>, processedLength |-> 0, logged |-> "message_unmarshal_failed"]
  ELSE [messages |-> [i \in 1..Len(st.messages) |-> unmarshalMessage(st.messages[i])],
        processedLength |-> st.processed_length, logged |-> ""]

(* ---------------------- system-message discipline ---------------------- *)

\* the loop of buildMessages: acc = <<leadingSystemMessages, otherOptMessages>>
RECURSIVE splitOptMessages(_, _, _, _)
splitOptMessages(optMessages, i, foundNonSystem, acc) ==
  IF i > Len(optMessages) THEN acc
  ELSE IF ~foundNonSystem /\ Role(optMessages[i]) = RoleSystem
    THEN splitOptMessages(optMessages, i + 1, foundNonSystem,
                          <<Append(acc[1], optMessages[i]), acc[2]>>)
    ELSE splitOptMessages(optMessages, i + 1, TRUE,
                          <<acc[1], Append(acc[2], optMessages[i])>>)

buildMessages_StateFirst(optMessages, stateMessages) ==
  LET split == splitOptMessages(optMessages, 1, FALSE, <<(<<>>), (<<>>)>>)
  IN stateMessages \o split[1] \o split[2]

buildMessages(optMessages, stateMessages) ==
  LET split == splitOptMessages(optMessages, 1, FALSE, <<(<<>>), (<<>>)>>)
  IN split[1] \o stateMessages \o split[2]

\* index of the first message whose role is not system, 0 when there is none
\* (firstNonSystem, shifted to the 1-based indices of sequences)
RECURSIVE firstNonSystemFrom(_, _)
firstNonSystemFrom(msgs, i) ==
  IF i > Len(msgs) THEN 0
  ELSE IF Role(msgs[i]) # RoleSystem THEN i
  ELSE firstNonSystemFrom(msgs, i + 1)

stripLeadingSystemMessages_None(msgs) == msgs

stripLeadingSystemMessages_AllSystem(msgs) ==
  SelectSeq(msgs, LAMBDA m : Role(m) # RoleSystem)

stripLeadingSystemMessages(msgs) ==
  LET firstNonSystem == firstNonSystemFrom(msgs, 1)
  IN IF firstNonSystem = 0 THEN <<>> ELSE SubSeq(msgs, firstNonSystem, Len(msgs))

extractLeadingSystemMessages(msgs) ==
  LET firstNonSystem == firstNonSystemFrom(msgs, 1)
  IN IF firstNonSystem = 0 THEN msgs
     ELSE IF firstNonSystem = 1 THEN <<>>
     ELSE SubSeq(msgs, 1, firstNonSystem - 1)

(* ------------------------ compaction framework ------------------------- *)

\* a bug that hands over the usage of the first response of the call
CompactionRequest_StaleUsage(stateMessages, leading, usage) ==
  [StateMessages |-> stateMessages, ProcessedLength |-> Len(stateMessages),
   LeadingSystemMessages |-> leading,
   LastAPIUsage |-> IF usages = <<>> THEN usage ELSE usages[1]]

CompactionRequest(stateMessages, leading, usage) ==
  [StateMessages |-> stateMessages, ProcessedLength |-> Len(stateMessages),
   LeadingSystemMessages |-> leading, LastAPIUsage |-> usage]

\* a Compactor's return value: a CompactionResponse, or an error
NewNotCompactedMessagesResponse(req) ==
  [err |-> FALSE, StateMessages |-> req.StateMessages, WasCompacted |-> FALSE]

NewCompactedMessagesResponse(stateMessages) ==
  [err |-> FALSE, StateMessages |-> stateMessages, WasCompacted |-> TRUE]

CompactorError == [err |-> TRUE, StateMessages |-> <<>>, WasCompacted |-> FALSE]

\* no compactor configured: nothing was invoked
NotInvoked == [invoked |-> FALSE, err |-> FALSE, StateMessages |-> <<>>, WasCompacted |-> FALSE]

\* no CompactionRequest was built
NoCompactionRequest ==
  [StateMessages |-> <<>>, ProcessedLength |-> 0, LeadingSystemMessages |-> <<>>,
   LastAPIUsage |-> [PromptTokens |-> 0]]

RECURSIVE firstUserFrom(_, _)
firstUserFrom(msgs, i) ==
  IF i > Len(msgs) THEN 0
  ELSE IF Role(msgs[i]) = RoleUser THEN i
  ELSE firstUserFrom(msgs, i + 1)

\* a bug that stops at the first message that is not a system message
AdvanceToFirstUserMessage_SkipSystem(msgs) ==
  LET i == firstNonSystemFrom(msgs, 1)
  IN IF i = 0 THEN <<>> ELSE SubSeq(msgs, i, Len(msgs))

AdvanceToFirstUserMessage(msgs) ==
  LET i == firstUserFrom(msgs, 1)
  IN IF i = 0 THEN <<>> ELSE SubSeq(msgs, i, Len(msgs))

\* a bug that already triggers at the limit
ShouldCompact_AtLimit(maxMessages, req) ==
  maxMessages > 0 /\ Len(req.StateMessages) >= maxMessages

ShouldCompact(maxMessages, req) ==
  maxMessages > 0 /\ Len(req.StateMessages) > maxMessages

\* a bug that leaves out the advance to the user boundary
CompactMessages_NoAdvance(maxMessages, req) ==
  LET lastMessages == SubSeq(req.StateMessages,
                             Len(req.StateMessages) - maxMessages + 1,
                             Len(req.StateMessages))
  IN NewCompactedMessagesResponse(lastMessages)

\* a bug that keeps the oldest messages instead of the latest
CompactMessages_KeepOldest(maxMessages, req) ==
  NewCompactedMessagesResponse(
    AdvanceToFirstUserMessage(SubSeq(req.StateMessages, 1, maxMessages)))

CompactMessages(maxMessages, req) ==
  LET lastMessages == SubSeq(req.StateMessages,
                             Len(req.StateMessages) - maxMessages + 1,
                             Len(req.StateMessages))
  IN NewCompactedMessagesResponse(AdvanceToFirstUserMessage(lastMessages))

\* a bug that never compacts
MessageLimitCompact_Never(maxMessages, req) == NewNotCompactedMessagesResponse(req)

MessageLimitCompact(maxMessages, req) ==
  IF ShouldCompact(maxMessages, req) THEN CompactMessages(maxMessages, req)
  ELSE NewNotCompactedMessagesResponse(req)

\* CompactionRequest.LastAPIUsage is a pointer: nil when no usage is available
NoUsage == [absent |-> TRUE]

UsagePresent(usage) == "PromptTokens" \in DOMAIN usage

\* a bug that lets a zero MaxTokens (disabled) trigger
TokenShouldCompact_ZeroTriggers(maxTokens, req) ==
  UsagePresent(req.LastAPIUsage) /\ req.LastAPIUsage.PromptTokens > maxTokens

\* TokenLimitCompactor.ShouldCompact: usage present and prompt_tokens > max_tokens > 0
TokenShouldCompact(maxTokens, req) ==
  /\ UsagePresent(req.LastAPIUsage)
  /\ maxTokens > 0
  /\ req.LastAPIUsage.PromptTokens > maxTokens

\* the number of oldest messages dropped: a third, rounded down, at least one
OneThird(n) == IF n \div 3 < 1 THEN 1 ELSE n \div 3

\* TokenLimitCompactor.CompactMessages: a history of at most two messages is
\* left alone; otherwise the oldest third goes, then the advance to a user message
TokenCompactMessages(req) ==
  IF Len(req.StateMessages) <= 2 THEN NewNotCompactedMessagesResponse(req)
  ELSE NewCompactedMessagesResponse(
         AdvanceToFirstUserMessage(
           SubSeq(req.StateMessages, OneThird(Len(req.StateMessages)) + 1,
                  Len(req.StateMessages))))

\* TokenLimitCompactor{MaxTokens}.Compact
TokenLimitCompact(maxTokens, req) ==
  IF TokenShouldCompact(maxTokens, req) THEN TokenCompactMessages(req)
  ELSE NewNotCompactedMessagesResponse(req)

\* the compactors a CompositeCompactor holds: the two built-in ones, one that
\* fails, and one of the caller that drops the oldest message and reports
\* WasCompacted as it likes
MessageLimitCompactor(maxMessages) == [kind |-> "limit", max |-> maxMessages, flag |-> FALSE]
TokenLimitCompactor(maxTokens) == [kind |-> "token", max |-> maxTokens, flag |-> FALSE]
FailingCompactor == [kind |-> "failing", max |-> 0, flag |-> FALSE]
DroppingCompactor(wasCompacted) == [kind |-> "dropping", max |-> 0, flag |-> wasCompacted]

\* compactor.Compact(ctx, req) of one held compactor
CompactWith(compactor, req) ==
  IF compactor.kind = "limit" THEN MessageLimitCompact(compactor.max, req)
  ELSE IF compactor.kind = "token" THEN TokenLimitCompact(compactor.max, req)
  ELSE IF compactor.kind = "failing" THEN CompactorError
  ELSE [err |-> FALSE,
        StateMessages |-> AdvanceToFirstUserMessage(DropFirst(req.StateMessages, 1)),
        WasCompacted |-> compactor.flag]

\* a bug that hands each compactor the history the one before it returned
RECURSIVE CompositeCompact_Chained(_, _)
CompositeCompact_Chained(compactors, req) ==
  IF compactors = <<>> THEN NewNotCompactedMessagesResponse(req)
  ELSE LET response == CompactWith(Head(compactors), req)
       IN IF response.err THEN CompactorError
          ELSE IF response.WasCompacted THEN response
          ELSE CompositeCompact_Chained(Tail(compactors),
                 [req EXCEPT !.StateMessages = response.StateMessages])

\* CompositeCompactor.Compact: the first compactor to compact, or to fail, decides
RECURSIVE CompositeCompactFrom(_, _, _)
CompositeCompactFrom(compactors, i, req) ==
  IF i > Len(compactors) THEN NewNotCompactedMessagesResponse(req)
  ELSE LET response == CompactWith(compactors[i], req)
       IN IF response.err THEN CompactorError
          ELSE IF response.WasCompacted THEN response
          ELSE CompositeCompactFrom(compactors, i + 1, req)

CompositeCompact(compactors, req) == CompositeCompactFrom(compactors, 1, req)

\* trigger.ShouldCompact(ctx, request) of one held trigger: (response, err)
TriggerWith(trigger, req) ==
  IF trigger.kind = "limit"
    THEN [response |-> ShouldCompact(trigger.max, req), err |-> FALSE]
  ELSE IF trigger.kind = "token"
    THEN [response |-> TokenShouldCompact(trigger.max, req), err |-> FALSE]
  ELSE IF trigger.kind = "failing" THEN [response |-> FALSE, err |-> TRUE]
  ELSE [response |-> trigger.flag, err |-> FALSE]

\* a bug that asks the first trigger only
CompositeShouldCompact_FirstOnly(triggers, req) ==
  IF triggers = <<>> THEN [response |-> FALSE, err |-> FALSE]
  ELSE TriggerWith(triggers[1], req)

\* CompositeCompactionTrigger.ShouldCompact: the first trigger that says yes,
\* or fails, decides
RECURSIVE CompositeShouldCompactFrom(_, _, _)
CompositeShouldCompactFrom(triggers, i, req) ==
  IF i > Len(triggers) THEN [response |-> FALSE, err |-> FALSE]
  ELSE LET r == TriggerWith(triggers[i], req)
       IN IF r.response \/ r.err THEN r
          ELSE CompositeShouldCompactFrom(triggers, i + 1, req)

CompositeShouldCompact(triggers, req) == CompositeShouldCompactFrom(triggers, 1, req)

\* a caller-supplied Compactor: it may fail, and it reports a history together
\* with the WasCompacted flag; the histories are the request's own, an absent
\* one (nil), and the request's trimmed to a user boundary
CustomCompactorOutcomes(req) ==
  {CompactorError} \cup
  { [err |-> FALSE, StateMessages |-> h, WasCompacted |-> f] :
      h \in {req.StateMessages, <<>>,
             AdvanceToFirstUserMessage(DropFirst(req.StateMessages, 1))},
      f \in BOOLEAN }

CompactorChoices == {"none", "limit", "custom"}

\* Compactor.Compact for the configured compactor
CompactorOutcomes(compactor, req) ==
  IF compactor = "limit" THEN {MessageLimitCompact(LimitK, req)}
  ELSE CustomCompactorOutcomes(req)

(* ------------------------------ tool runner ---------------------------- *)

ErrToolNotFound == "tool not found"

\* fmt.Sprintf("Error: %v", err)
ErrorText(err) ==
  IF err = ErrToolNotFound THEN "Error: tool not found" ELSE "Error: boom"

\* the tools of the caller: echo returns its arguments, fail returns an error
ToolExecute(name, toolRequest) ==
  IF name = "echo" THEN [Result |-> toolRequest.Args, err |-> ""]
  ELSE [Result |-> "", err |-> "boom"]

getTool(tools, name) == \E i \in 1..Len(tools) : tools[i] = name

\* a bug that reports a missing tool through the error return
Runner_NotFoundAsError(tools, toolRequest) ==
  IF ~getTool(tools, toolRequest.Name)
    THEN [Result |-> "", err |-> ErrToolNotFound]
    ELSE ToolExecute(toolRequest.Name, toolRequest)

\* ToolSet.Runner: the result and the error ("" for nil) of one tool request
Runner(tools, toolRequest) ==
  IF ~getTool(tools, toolRequest.Name)
    THEN [Result |-> ErrorText(ErrToolNotFound), err |-> ""]
    ELSE ToolExecute(toolRequest.Name, toolRequest)

\* the ToolRequest built for one tool call
ToolRequest(call) == [Name |-> call.name, Args |-> call.arguments, CallId |-> call.id]

\* the requests executeTools hands to the runner, in call order
ToolRequests(toolCalls) == [i \in 1..Len(toolCalls) |-> ToolRequest(toolCalls[i])]

\* a bug that gives up the batch at the first tool error
executeTools_StopAtError(toolCalls, tools) ==
  LET failed(i) == Runner(tools, ToolRequest(toolCalls[i])).err # ""
      n == IF \E i \in 1..Len(toolCalls) : failed(i)
             THEN (CHOOSE i \in 1..Len(toolCalls) :
                     failed(i) /\ \A j \in 1..(i - 1) : ~failed(j)) - 1
             ELSE Len(toolCalls)
  IN [i \in 1..n |->
        NewToolMessage(toolCalls[i].id, Runner(tools, ToolRequest(toolCalls[i])).Result)]

\* a bug that answers the calls of a batch in the wrong order
executeTools_Reversed(toolCalls, tools) ==
  [i \in 1..Len(toolCalls) |->
     LET call == toolCalls[Len(toolCalls) + 1 - i]
         toolRequest == ToolRequest(call)
         r == Runner(tools, toolRequest)
         resultContent == IF r.err # "" THEN ErrorText(r.err) ELSE r.Result
     IN NewToolMessage(call.id, resultContent)]

\* executeTools: one tool message per call, in call order
executeTools(toolCalls, tools) ==
  [i \in 1..Len(toolCalls) |->
     LET call == toolCalls[i]
         toolRequest == ToolRequest(call)
         r == Runner(tools, toolRequest)
         resultContent == IF r.err # "" THEN ErrorText(r.err) ELSE r.Result
     IN NewToolMessage(call.id, resultContent)]

(* ------------------------------ system log ---------------------------- *)

\* one call of SystemLogger.Debug / Info / Error: the message, the keys of
\* its fields, and the strings among its values (the error included)
LogRecord(msg, keys, strings) == [msg |-> msg, keys |-> keys, strings |-> strings]

\* what decodeState reports through logError when it discards a state
decodeStateLog(st) ==
  IF decodeState(st).logged = "" THEN <<>>
  ELSE <<LogRecord(decodeState(st).logged, {}, {})>>

\* a bug that logs arguments and responses whatever the flag says
RECURSIVE executeToolsLog_Always(_, _, _)
executeToolsLog_Always(toolCalls, tools, idx) ==
  IF idx > Len(toolCalls) THEN <<>>
  ELSE LET call == toolCalls[idx]
           r == Runner(tools, ToolRequest(call))
           resultContent == IF r.err # "" THEN ErrorText(r.err) ELSE r.Result
       IN <<LogRecord("executing_tool_call",
                      {"iteration", "tool_call_index", "tool_calls_count", "tool_name",
                       "tool_id", "tool_args"},
                      {call.name, call.id, call.arguments})>>
          \o (IF r.err # ""
                THEN <<LogRecord("tool_execution_error",
                                 {"iteration", "tool_name", "tool_id", "err"},
                                 {call.name, call.id, r.err})>>
                ELSE <<>>)
          \o <<LogRecord("tool_response",
                         {"iteration", "tool_call_index", "tool_name", "tool_id", "response"},
                         {call.name, call.id, resultContent})>>
          \o executeToolsLog_Always(toolCalls, tools, idx + 1)

\* the records executeTools sends for the calls from idx on
RECURSIVE executeToolsLog(_, _, _)
executeToolsLog(toolCalls, tools, idx) ==
  IF idx > Len(toolCalls) THEN <<>>
  ELSE LET call == toolCalls[idx]
           r == Runner(tools, ToolRequest(call))
           resultContent == IF r.err # "" THEN ErrorText(r.err) ELSE r.Result
       IN <<LogRecord("executing_tool_call",
                      {"iteration", "tool_call_index", "tool_calls_count", "tool_name",
                       "tool_id"} \cup (IF LogToolArguments THEN {"tool_args"} ELSE {}),
                      {call.name, call.id}
                        \cup (IF LogToolArguments THEN {call.arguments} ELSE {}))>>
          \o (IF r.err # ""
                THEN <<LogRecord("tool_execution_error",
                                 {"iteration", "tool_name", "tool_id", "err"},
                                 {call.name, call.id, r.err})>>
                ELSE <<>>)
          \o (IF LogToolArguments
                THEN <<LogRecord("tool_response",
                                 {"iteration", "tool_call_index", "tool_name", "tool_id",
                                  "response"},
                                 {call.name, call.id, resultContent})>>
                ELSE <<>>)
          \o executeToolsLog(toolCalls, tools, idx + 1)

\* logDebug(ctx, "starting_chat_iteration", "iteration", iteration)
StartingIteration == LogRecord("starting_chat_iteration", {"iteration"}, {})

\* what the STOP case logs: chat_completed, then compaction_failed or
\* conversation_compacted when the compactor failed or compacted
StopLog(c) ==
  <<LogRecord("chat_completed", {"iteration"}, {})>>
  \o (IF c.err THEN <<LogRecord("compaction_failed", {"err"}, {"compactor error"})>>
      ELSE IF c.WasCompacted
        THEN <<LogRecord("conversation_compacted", {"messages_before", "messages_after"}, {})>>
      ELSE <<>>)

(* --------------------------- inputs of a call -------------------------- *)

\* values of Chat.MaxToolIterations: below zero, unset, or set
FieldChoices == {0 - 1, 0, 2}

\* WithMaxToolIterations: absent, or a value
NoOverride == [set |-> FALSE, val |-> 0]

Override(n) == [set |-> TRUE, val |-> n]

\* the per-call bounds tried with the stateless Chat
OverrideChoices == {NoOverride, Override(0), Override(3)}

\* the per-call bounds tried in a stored conversation
SessionOverrides == {NoOverride, Override(1)}

\* the option lists of a call: the first k <= MaxOpts options of these orders
OptionPatterns ==
  LET s == NewSystemMessage("s")
      u == NewUserMessage("u")
  IN {<<s, s, u, s>>, <<s, u, s, u>>, <<u, s, u, s>>, <<u, u, s, u>>}

OptionLists == {SubSeq(p, 1, k) : p \in OptionPatterns, k \in 0..MaxOpts}

\* the option lists tried with the stateless Chat
ChatOptionLists == {<<NewUserMessage("u")>>, <<NewSystemMessage("s"), NewUserMessage("u")>>}

\* WithTools
ToolSets == {<<"echo", "fail">>}

\* the states a caller may pass: none, the one it keeps, that one written by
\* another provider or under another version, that one with a damaged
\* message, or bytes that are no state at all
StateInputs ==
  {NilState, GarbageState} \cup
  (IF stored.kind = "json"
     THEN {stored, [stored EXCEPT !.provider = "other"],
           [stored EXCEPT !.version = StateVersion + 1]}
     ELSE {}) \cup
  (IF stored.kind = "json" /\ stored.messages # <<>>
     THEN {[stored EXCEPT !.messages[1] = BadRaw]}
     ELSE {})

NoRequest == [messages |-> <<>>, tools |-> <<>>, maxToolIterations |-> NoOverride]

NoError == [msg |-> "", n |-> 0]

NoResult == [status |-> "none", text |-> "", newState |-> NilState, err |-> NoError]

\* a bug that hands the history reached so far back with the error
Failure_PartialState(msg, n) ==
  [status |-> "error", text |-> "",
   newState |-> encodeState(stripLeadingSystemMessages(messages), Len(messages)),
   err |-> [msg |-> msg, n |-> n]]

Failure(msg, n) ==
  [status |-> "error", text |-> "", newState |-> NilState, err |-> [msg |-> msg, n |-> n]]

Success(text, newState) ==
  [status |-> "ok", text |-> text, newState |-> newState, err |-> NoError]

\* the caller of the codec holds nothing
CodecIdle ==
  [pc |-> "idle", messages |-> <<>>, processed_len |-> 0, blob |-> NilState,
   damage |-> "none", decoded |-> decodeState(NilState)]

\* the caller of the compactor holds nothing
CompactionIdle ==
  [pc |-> "idle", MaxMessages |-> 0, request |-> NoCompactionRequest,
   response |-> NewNotCompactedMessagesResponse(NoCompactionRequest), advanced |-> <<>>]

(* ------------------------- backend responses --------------------------- *)

\* the message of a ChatCompletion response: json.Marshal of the parsed choice
ResponseMessage(content, toolCalls) ==
  newMessage(ParsedMessage(RoleAssistant, content, toolCalls, ""))

ToolCall(id, name) == [id |-> id, name |-> name, arguments |-> "42"]

\* the tool calls a TOOL_CALLS response may carry: none, one call of a tool
\* that succeeds, or a call of a failing tool followed by a call of a tool
\* that is not in the set
ToolCallBatches ==
  {<<>>, <<ToolCall("t1", "echo")>>, <<ToolCall("t1", "fail"), ToolCall("t2", "missing")>>}

\* the usage a response reports: the prompt tokens grow with the list sent
\* (one token for the request and one for each message)
Usage(sent) == [PromptTokens |-> Len(sent) + 1]

\* the calls that run at the same time on one Chat
Callers == {"a", "b"}

\* the locals of a call that has not begun
NoCall ==
  [pc |-> "idle", op |-> "none", state |-> NilState, request |-> NoRequest,
   messages |-> <<>>, iteration |-> 0, maxIter |-> 0, outcomes |-> <<>>,
   result |-> NoResult]

(* ------------------------------ ChatWithState -------------------------- *)

\* a bug that takes the field as it is, without the default
resolveMaxIterations_NoDefault(override) ==
  IF override.set THEN override.val ELSE MaxToolIterations

resolveMaxIterations_FieldFirst(override) ==
  IF MaxToolIterations > 0 THEN MaxToolIterations
  ELSE IF override.set THEN override.val
  ELSE DefaultMaxIterations

resolveMaxIterations(override) ==
  IF override.set THEN override.val
  ELSE IF MaxToolIterations > 0 THEN MaxToolIterations
  ELSE DefaultMaxIterations

\* no call in progress
AtRest ==
  /\ pc = "idle"
  /\ op = "none"
  /\ state = NilState
  /\ request = NoRequest
  /\ messages = <<>>
  /\ iteration = 0
  /\ maxIter = 0
  /\ firstCall = <<>>
  /\ lastCall = <<>>
  /\ finishes = <<>>
  /\ compactAt = {}
  /\ compacted = NotInvoked
  /\ result = NoResult
  /\ executed = <<>>
  /\ usages = <<>>
  /\ compactionRequest = NoCompactionRequest
  /\ log = <<>>

\* a Chat with a compactor or none, used for a stored conversation
Init ==
  /\ MaxToolIterations = 2
  /\ LogToolArguments = FALSE
  /\ Compactor \in CompactorChoices
  /\ stored = NilState
  /\ origin = <<>>
  /\ codec = CodecIdle
  /\ compaction = CompactionIdle
  /\ inflight = [p \in Callers |-> NoCall]
  /\ AtRest

\* a Chat with any configuration, used through the stateless Chat
ChatInit ==
  /\ MaxToolIterations \in FieldChoices
  /\ LogToolArguments \in BOOLEAN
  /\ Compactor \in CompactorChoices
  /\ stored = NilState
  /\ origin = <<>>
  /\ codec = CodecIdle
  /\ compaction = CompactionIdle
  /\ inflight = [p \in Callers |-> NoCall]
  /\ AtRest

\* ChatWithState up to the loop: options, decodeState, buildMessages, resolveMaxIterations
EnterChatWithState(st, opts, tools, ov) ==
  /\ pc = "idle"
  /\ state' = st
  /\ request' = [messages |-> opts, tools |-> tools, maxToolIterations |-> ov]
  /\ messages' = buildMessages(opts, decodeState(st).messages)
  /\ maxIter' = resolveMaxIterations(ov)
  /\ iteration' = 0
  /\ pc' = "loop"
  /\ op' = "chat"
  /\ firstCall' = <<>>
  /\ lastCall' = <<>>
  /\ finishes' = <<>>
  /\ compactAt' = {}
  /\ compacted' = NotInvoked
  /\ result' = NoResult
  /\ executed' = <<>>
  /\ usages' = <<>>
  /\ compactionRequest' = NoCompactionRequest
  /\ log' = decodeStateLog(st)
  /\ UNCHANGED <<config, codec, compaction, stored, origin, inflight>>

\* the caller calls ChatWithState with a state
StartChatWithState ==
  \E st \in StateInputs, opts \in OptionLists, tools \in ToolSets, ov \in SessionOverrides :
    EnterChatWithState(st, opts, tools, ov)

\* the caller calls Chat: ChatWithState with a nil state
StartChat ==
  \E opts \in ChatOptionLists, tools \in ToolSets, ov \in OverrideChoices :
    EnterChatWithState(NilState, opts, tools, ov)

LoopContinues_Inclusive == iteration <= maxIter

\* the loop condition: iteration < maxIter
LoopContinues == iteration < maxIter

\* c.Backend.ChatCompletion(ctx, messages, request.tools) is entered
BackendCalled(outcome) ==
  /\ pc = "loop"
  /\ LoopContinues
  /\ finishes' = Append(finishes, outcome)
  /\ firstCall' = IF finishes = <<>> THEN messages ELSE firstCall
  /\ lastCall' = messages

\* a bug that goes on to the next iteration after a backend error
BackendFails_Continue ==
  /\ BackendCalled("error")
  /\ log' = log \o <<StartingIteration,
                      LogRecord("chat_completion_failed", {"iteration", "err"},
                                {"backend error"})>>
  /\ iteration' = iteration + 1
  /\ UNCHANGED <<config, codec, compaction, stored, origin, usages, compactionRequest,
                 executed, op, state, request, messages, maxIter, pc, result,
                 compactAt, compacted, inflight>>

\* the backend call returns an error
BackendFails ==
  /\ BackendCalled("error")
  /\ log' = log \o <<StartingIteration,
                      LogRecord("chat_completion_failed", {"iteration", "err"},
                                {"backend error"})>>
  /\ result' = Failure("backend error", 0)
  /\ pc' = "error"
  /\ UNCHANGED <<config, codec, compaction, stored, origin, usages, compactionRequest, executed, op, state, request, messages, iteration, maxIter,
                 compactAt, compacted, inflight>>

CompactorInvoked_AnyFinish(finishReason) ==
  Compactor # "none" /\ finishReason \in {FinishReasonStop, FinishReasonToolCalls}

\* the compactor is called in the FinishReasonStop case when one is configured
CompactorInvoked(finishReason) ==
  Compactor # "none" /\ finishReason = FinishReasonStop

HistoryToEncode_Stripped(stateMessages, response) == stateMessages

\* the history that is encoded, given what the compactor returned
HistoryToEncode(stateMessages, response) ==
  IF response.WasCompacted THEN response.StateMessages ELSE stateMessages

\* a bug that leaves the count of processed messages unset
ProcessedLengthAfterChat_Unset(stripped, final) == 0

\* a bug that counts the messages before the compactor shortened them
ProcessedLengthAfterChat_BeforeCompaction(stripped, final) == Len(stripped)

\* the processed length ChatWithState encodes: len(stateMessages) after the
\* compactor's history, if any, was taken
ProcessedLengthAfterChat(stripped, final) == Len(final)

\* a bug that drops the compactor's error and returns the history as it was
StopResult_IgnoreError(content, stateMessages, c) ==
  LET final == IF c.err THEN stateMessages ELSE HistoryToEncode(stateMessages, c)
  IN Success(content, encodeState(final, ProcessedLengthAfterChat(stateMessages, final)))

\* what the STOP case returns once the compactor returned c
StopResult(content, stateMessages, c) ==
  IF c.err THEN Failure("compaction failed", 0)
  ELSE LET final == HistoryToEncode(stateMessages, c)
       IN Success(content, encodeState(final, ProcessedLengthAfterChat(stateMessages, final)))

\* case FinishReasonStop: strip, compact, encode, return
RespondStop ==
  /\ BackendCalled(FinishReasonStop)
  /\ LET response == [Message |-> ResponseMessage("ok", <<>>), Usage |-> Usage(messages)]
         msgs == Append(messages, response.Message)
         stateMessages == stripLeadingSystemMessages(msgs)
         req == CompactionRequest(stateMessages, extractLeadingSystemMessages(msgs),
                                  response.Usage)
     IN /\ messages' = msgs
        /\ usages' = Append(usages, response.Usage)
        /\ IF CompactorInvoked(FinishReasonStop)
             THEN \E c \in CompactorOutcomes(Compactor, req) :
                    /\ compactAt' = compactAt \cup {iteration}
                    /\ compactionRequest' = req
                    /\ compacted' = [invoked |-> TRUE, err |-> c.err,
                                     StateMessages |-> c.StateMessages,
                                     WasCompacted |-> c.WasCompacted]
                    /\ result' = StopResult(Content(response.Message), stateMessages, c)
                    /\ pc' = IF result'.status = "ok" THEN "return" ELSE "error"
                    /\ log' = log \o <<StartingIteration>> \o StopLog(c)
             ELSE /\ UNCHANGED <<compactAt, compacted, compactionRequest>>
                  /\ log' = log \o <<StartingIteration>> \o StopLog(NotInvoked)
                  /\ result' = Success(Content(response.Message),
                                       encodeState(stateMessages,
                                         ProcessedLengthAfterChat(stateMessages, stateMessages)))
                  /\ pc' = "return"
  /\ UNCHANGED <<config, codec, compaction, stored, origin, executed, op, state, request, iteration, maxIter, inflight>>

\* a bug that keeps the tool messages and loses the list they belong to
appendMessages_Replace(list, added) == added

\* messages = append(messages, toolResults...)
appendMessages(list, added) == list \o added

\* case FinishReasonToolCalls: execute the tools, append their messages, continue
RespondToolCalls ==
  /\ BackendCalled(FinishReasonToolCalls)
  /\ \E batch \in (IF iteration < MaxToolRounds THEN ToolCallBatches ELSE {<<>>}) :
       LET response == [Message |-> ResponseMessage("", batch), Usage |-> Usage(messages)]
           toolResults == executeTools(ToolCalls(response.Message), request.tools)
       IN /\ messages' = appendMessages(Append(messages, response.Message), toolResults)
          /\ usages' = Append(usages, response.Usage)
          /\ executed' = executed \o ToolRequests(ToolCalls(response.Message))
          /\ log' = log \o <<StartingIteration,
                              LogRecord("executing_tools", {"iteration", "count"}, {})>>
                        \o executeToolsLog(ToolCalls(response.Message), request.tools, 1)
  /\ IF CompactorInvoked(FinishReasonToolCalls)
       THEN /\ compactAt' = compactAt \cup {iteration}
            /\ UNCHANGED compacted
       ELSE UNCHANGED <<compactAt, compacted>>
  /\ iteration' = iteration + 1
  /\ UNCHANGED <<config, codec, compaction, stored, origin, compactionRequest, pc, op, state, request, maxIter, result, inflight>>

\* case FinishReasonLength
RespondLength ==
  /\ BackendCalled(FinishReasonLength)
  /\ messages' = Append(messages, ResponseMessage("cut", <<>>))
  /\ usages' = Append(usages, Usage(messages))
  /\ result' = Failure("conversation exceeded max tokens", 0)
  /\ log' = log \o <<StartingIteration, LogRecord("max_tokens_exceeded", {}, {})>>
  /\ pc' = "error"
  /\ UNCHANGED <<config, codec, compaction, stored, origin, compactionRequest, executed, op, state, request, iteration, maxIter, compactAt, compacted, inflight>>

\* default case: a finish reason the library does not know
RespondUnknown ==
  /\ BackendCalled(FinishReasonOther)
  /\ messages' = Append(messages, ResponseMessage("", <<>>))
  /\ usages' = Append(usages, Usage(messages))
  /\ result' = Failure("unknown finish reason", 0)
  /\ log' = log \o <<StartingIteration,
                      LogRecord("unknown_finish_reason", {"reason"}, {FinishReasonOther})>>
  /\ pc' = "error"
  /\ UNCHANGED <<config, codec, compaction, stored, origin, compactionRequest, executed, op, state, request, iteration, maxIter, compactAt, compacted, inflight>>

\* the loop ends without a return: the iteration bound is reported
IterationsExceeded ==
  /\ pc = "loop"
  /\ ~LoopContinues
  /\ result' = Failure("exceeded max tool iterations", maxIter)
  /\ log' = Append(log, LogRecord("max_iterations_exceeded", {"max"}, {}))
  /\ pc' = "error"
  /\ UNCHANGED <<config, codec, compaction, stored, origin, usages, compactionRequest, executed, op, state, request, messages, iteration, maxIter,
                 firstCall, lastCall, finishes, compactAt, compacted, inflight>>

(* ------------------------------ AppendToState -------------------------- *)

ProcessedLengthToEncode_All(msgs, processedLength) == Len(msgs)

\* AppendToState encodes with the processed length it decoded
ProcessedLengthToEncode(msgs, processedLength) == processedLength

AppendedMessages_Replace(decoded, added) == added

\* messages = append(messages, request.messages...)
AppendedMessages(decoded, added) == decoded \o added

\* a bug that lets WithTools leak into the stored history
AppendToStateResult_ToolsStored(st, req) ==
  LET decoded == decodeState(st)
      msgs == AppendedMessages(decoded.messages, req.messages)
                \o [i \in 1..Len(req.tools) |-> NewSystemMessage(req.tools[i])]
  IN encodeState(msgs, ProcessedLengthToEncode(msgs, decoded.processedLength))

\* the body of AppendToState after the options were applied: decode, append, encode
AppendToStateResult(st, req) ==
  LET decoded == decodeState(st)
      msgs == AppendedMessages(decoded.messages, req.messages)
  IN encodeState(msgs, ProcessedLengthToEncode(msgs, decoded.processedLength))

\* the tool options given to AppendToState: none, or WithTools together with
\* WithMaxToolIterations
AppendToolOptions ==
  {[tools |-> <<>>, maxToolIterations |-> NoOverride]} \cup
  {[tools |-> tools, maxToolIterations |-> Override(1)] : tools \in ToolSets}

AppendToState ==
  /\ pc = "idle"
  /\ \E st \in StateInputs, opts \in OptionLists, toolOpts \in AppendToolOptions :
       LET req == [messages |-> opts, tools |-> toolOpts.tools,
                   maxToolIterations |-> toolOpts.maxToolIterations]
       IN /\ state' = st
          /\ request' = req
          /\ result' = Success("", AppendToStateResult(st, req))
          /\ log' = decodeStateLog(st)
  /\ executed' = <<>>
  /\ usages' = <<>>
  /\ compactionRequest' = NoCompactionRequest
  /\ pc' = "return"
  /\ op' = "append"
  /\ messages' = <<>>
  /\ iteration' = 0
  /\ maxIter' = 0
  /\ firstCall' = <<>>
  /\ lastCall' = <<>>
  /\ finishes' = <<>>
  /\ compactAt' = {}
  /\ compacted' = NotInvoked
  /\ UNCHANGED <<config, codec, compaction, stored, origin, inflight>>

(* ------------------------- calls side by side -------------------------- *)

\* the locals of ChatWithState when its loop is reached: request, the decoded
\* state, the working list and the resolved bound
CallEntered(st, opts, tools, ov) ==
  [pc |-> "loop", op |-> "chat", state |-> st,
   request |-> [messages |-> opts, tools |-> tools, maxToolIterations |-> ov],
   messages |-> buildMessages(opts, decodeState(st).messages),
   iteration |-> 0, maxIter |-> resolveMaxIterations(ov),
   outcomes |-> <<>>, result |-> NoResult]

\* one pass of the loop of ChatWithState over the locals c of a call, the
\* backend answering with outcome; when the loop condition fails the pass is
\* the statement after the loop
CallStep(c, outcome) ==
  IF ~(c.iteration < c.maxIter)
    THEN [c EXCEPT !.pc = "error",
                   !.result = Failure("exceeded max tool iterations", c.maxIter)]
  ELSE IF outcome.finish = "error"
    THEN [c EXCEPT !.pc = "error", !.result = Failure("backend error", 0),
                   !.outcomes = Append(c.outcomes, outcome)]
  ELSE IF outcome.finish = FinishReasonStop
    THEN LET response == [Message |-> ResponseMessage("ok", <<>>),
                          Usage |-> Usage(c.messages)]
             msgs == Append(c.messages, response.Message)
             stateMessages == stripLeadingSystemMessages(msgs)
             req == CompactionRequest(stateMessages, extractLeadingSystemMessages(msgs),
                                      response.Usage)
             res == IF Compactor = "none"
                      THEN Success(Content(response.Message),
                                   encodeState(stateMessages,
                                     ProcessedLengthAfterChat(stateMessages, stateMessages)))
                      ELSE StopResult(Content(response.Message), stateMessages,
                                      MessageLimitCompact(LimitK, req))
         IN [c EXCEPT !.messages = msgs, !.result = res,
                      !.pc = IF res.status = "ok" THEN "return" ELSE "error",
                      !.outcomes = Append(c.outcomes, outcome)]
  ELSE IF outcome.finish = FinishReasonToolCalls
    THEN LET response == [Message |-> ResponseMessage("", outcome.batch),
                          Usage |-> Usage(c.messages)]
             toolResults == executeTools(ToolCalls(response.Message), c.request.tools)
         IN [c EXCEPT !.messages = appendMessages(Append(c.messages, response.Message),
                                                  toolResults),
                      !.iteration = c.iteration + 1,
                      !.outcomes = Append(c.outcomes, outcome)]
  ELSE IF outcome.finish = FinishReasonLength
    THEN [c EXCEPT !.messages = Append(c.messages, ResponseMessage("cut", <<>>)),
                   !.pc = "error",
                   !.result = Failure("conversation exceeded max tokens", 0),
                   !.outcomes = Append(c.outcomes, outcome)]
  ELSE [c EXCEPT !.messages = Append(c.messages, ResponseMessage("", <<>>)),
                 !.pc = "error", !.result = Failure("unknown finish reason", 0),
                 !.outcomes = Append(c.outcomes, outcome)]

\* a bug that keeps the per-call bound in the Chat
CallChatWithState_SetsField(p) ==
  /\ inflight[p].pc = "idle"
  /\ \E st \in {NilState, encodeState(<<NewUserMessage("u"), ResponseMessage("ok", <<>>)>>, 2)},
        opts \in ChatOptionLists, tools \in ToolSets, ov \in SessionOverrides :
       /\ MaxToolIterations' = IF ov.set THEN ov.val ELSE MaxToolIterations
       /\ inflight' = [inflight EXCEPT ![p] = CallEntered(st, opts, tools, NoOverride)]
  /\ UNCHANGED <<Compactor, LogToolArguments, codec, compaction, stored, origin, pc, op,
                 state, request, messages, iteration, maxIter, firstCall, lastCall,
                 finishes, compactAt, compacted, result, executed, usages,
                 compactionRequest, log>>

\* caller p enters ChatWithState, with no state or with a stored conversation
CallChatWithState(p) ==
  /\ inflight[p].pc = "idle"
  /\ \E st \in {NilState, encodeState(<<NewUserMessage("u"), ResponseMessage("ok", <<>>)>>, 2)},
        opts \in ChatOptionLists, tools \in ToolSets, ov \in SessionOverrides :
       inflight' = [inflight EXCEPT ![p] = CallEntered(st, opts, tools, ov)]
  /\ UNCHANGED <<config, codec, compaction, stored, origin, pc, op, state, request,
                 messages, iteration, maxIter, firstCall, lastCall, finishes, compactAt,
                 compacted, result, executed, usages, compactionRequest, log>>

\* caller p runs AppendToState, which has no suspension point
CallAppendToState(p) ==
  /\ inflight[p].pc = "idle"
  /\ \E st \in {NilState, encodeState(<<NewUserMessage("u"), ResponseMessage("ok", <<>>)>>, 2)},
        opts \in ChatOptionLists :
       LET req == [messages |-> opts, tools |-> <<>>, maxToolIterations |-> NoOverride]
       IN inflight' = [inflight EXCEPT ![p] =
            [NoCall EXCEPT !.pc = "return", !.op = "append", !.state = st,
                           !.request = req,
                           !.result = Success("", AppendToStateResult(st, req))]]
  /\ UNCHANGED <<config, codec, compaction, stored, origin, pc, op, state, request,
                 messages, iteration, maxIter, firstCall, lastCall, finishes, compactAt,
                 compacted, result, executed, usages, compactionRequest, log>>

\* the call of caller p goes once round its loop, or leaves it at the bound
CallLoop(p) ==
  /\ inflight[p].pc = "loop"
  /\ \E finish \in {"error", FinishReasonStop, FinishReasonToolCalls, FinishReasonLength,
                    FinishReasonOther},
        batch \in ToolCallBatches :
       /\ (finish = FinishReasonToolCalls /\ inflight[p].iteration < MaxToolRounds)
            \/ batch = <<>>
       /\ inflight' = [inflight EXCEPT ![p] =
                         CallStep(inflight[p], [finish |-> finish, batch |-> batch])]
  /\ UNCHANGED <<config, codec, compaction, stored, origin, pc, op, state, request,
                 messages, iteration, maxIter, firstCall, lastCall, finishes, compactAt,
                 compacted, result, executed, usages, compactionRequest, log>>

\* caller p takes what the call returned; nothing of the call stays in the Chat
CallReturns(p) ==
  /\ inflight[p].pc \in {"return", "error"}
  /\ inflight' = [inflight EXCEPT ![p] = NoCall]
  /\ UNCHANGED <<config, codec, compaction, stored, origin, pc, op, state, request,
                 messages, iteration, maxIter, firstCall, lastCall, finishes, compactAt,
                 compacted, result, executed, usages, compactionRequest, log>>

\* one Chat, with the message limit compactor or none, shared by the callers
ConcurrentInit ==
  /\ MaxToolIterations = 2
  /\ LogToolArguments = FALSE
  /\ Compactor \in {"none", "limit"}
  /\ stored = NilState
  /\ origin = <<>>
  /\ codec = CodecIdle
  /\ compaction = CompactionIdle
  /\ inflight = [p \in Callers |-> NoCall]
  /\ AtRest

ConcurrentNext ==
  \E p \in Callers :
    \/ CallChatWithState(p)
    \/ CallAppendToState(p)
    \/ CallLoop(p)
    \/ CallReturns(p)

ConcurrentSpec == ConcurrentInit /\ [][ConcurrentNext]_vars

(* --------------------------- the codec alone --------------------------- *)

\* a stored message that carries a field openai.Message does not know
RawWithUnknownField ==
  [jsonMarshalMessage(ParsedMessage(RoleAssistant, "ok", <<>>, "")) EXCEPT !.extra = "reasoning"]

\* messages as the orchestrator holds them: made by the factory methods, taken
\* from a ChatCompletion response, or rebuilt from stored bytes
CodecMessages ==
  {NewSystemMessage("s"), NewUserMessage("u"), NewUserMessage(InvalidUTF8),
   ResponseMessage("", <<ToolCall("t1", "echo")>>), NewToolMessage("t1", "42"),
   unmarshalMessage(RawWithUnknownField)}

CodecMessageLists ==
  UNION {[1..n -> CodecMessages] : n \in 0..MaxStateLen}

\* processed lengths handed to encodeState: any integer, in or out of range
CodecLengths == (0 - 1)..(MaxStateLen + 1)

\* what may happen to a blob between encodeState and decodeState: it is lost
\* (nil) or emptied, it is overwritten by bytes that do not parse, it was
\* written under another version or by another provider, or one of its
\* messages is damaged
Damages == {"nil", "empty", "garbage", "version", "provider", "message"}

Damaged(blob, d) ==
  CASE d = "nil" -> NilState
    [] d = "empty" -> EmptyState
    [] d = "garbage" -> GarbageState
    [] d = "version" -> [blob EXCEPT !.version = StateVersion + 1]
    [] d = "provider" -> [blob EXCEPT !.provider = "other"]
    [] d = "message" -> [blob EXCEPT !.messages[1] = BadRaw]

\* encodeState(messages, processed_len)
CodecEncode ==
  /\ codec.pc = "idle"
  /\ \E msgs \in CodecMessageLists, processed_len \in CodecLengths :
       codec' = [pc |-> "encoded", messages |-> msgs, processed_len |-> processed_len,
                 blob |-> encodeState(msgs, processed_len), damage |-> "none",
                 decoded |-> decodeState(NilState)]
  /\ UNCHANGED <<config, compaction, stored, origin, pc, op, state, request, messages,
                 iteration, maxIter, firstCall, lastCall, finishes, compactAt, compacted,
                 result, executed, usages, compactionRequest, log, inflight>>

\* the blob does not come back as it was written
CodecDamage ==
  /\ codec.pc = "encoded"
  /\ \E d \in Damages :
       /\ d = "message" => codec.blob.messages # <<>>
       /\ codec' = [codec EXCEPT !.pc = "damaged", !.damage = d,
                                  !.blob = Damaged(codec.blob, d)]
  /\ UNCHANGED <<config, compaction, stored, origin, pc, op, state, request, messages,
                 iteration, maxIter, firstCall, lastCall, finishes, compactAt, compacted,
                 result, executed, usages, compactionRequest, log, inflight>>

\* decodeState(blob)
CodecDecode ==
  /\ codec.pc \in {"encoded", "damaged"}
  /\ codec' = [codec EXCEPT !.pc = "decoded", !.decoded = decodeState(codec.blob)]
  /\ UNCHANGED <<config, compaction, stored, origin, pc, op, state, request, messages,
                 iteration, maxIter, firstCall, lastCall, finishes, compactAt, compacted,
                 result, executed, usages, compactionRequest, log, inflight>>

CodecReset ==
  /\ codec.pc = "decoded"
  /\ codec' = CodecIdle
  /\ UNCHANGED <<config, compaction, stored, origin, pc, op, state, request, messages,
                 iteration, maxIter, firstCall, lastCall, finishes, compactAt, compacted,
                 result, executed, usages, compactionRequest, log, inflight>>

(* -------------------------- one message alone -------------------------- *)

\* the bytes of a message as a provider or a store holds them, with or
\* without a field openai.Message does not know
WireBytes(role, content, toolCalls, toolCallID, extra) ==
  [ok |-> TRUE, role |-> role, content |-> content, tool_calls |-> toolCalls,
   tool_call_id |-> toolCallID, extra |-> extra]

\* bytes handed to UnmarshalMessage
StoredBytes ==
  {WireBytes(role, content, <<>>, "", extra) :
     role \in {RoleSystem, RoleUser, RoleAssistant}, content \in {"s", "u", ""},
     extra \in {"none", "reasoning"}}
  \cup {WireBytes(RoleTool, content, <<>>, "t1", extra) :
          content \in {"s", "u", ""}, extra \in {"none", "reasoning"}}

\* the message of the first choice of a chat-completion response body
ResponseBytes ==
  {WireBytes(RoleAssistant, content, toolCalls, "", extra) :
     content \in {"s", "u", ""}, toolCalls \in {<<>>, <<ToolCall("t1", "echo")>>},
     extra \in {"none", "reasoning"}}

\* messages made by the factory methods
FactoryMessages ==
  {NewSystemMessage(content) : content \in {"s", "", InvalidUTF8}}
  \cup {NewUserMessage(content) : content \in {"u", "", InvalidUTF8}}
  \cup {NewToolMessage("t1", content) : content \in {"42", "", InvalidUTF8}}

MessageIdle ==
  [pc |-> "idle", source |-> "none", bytes |-> BadRaw, message |-> unmarshalMessage(BadRaw),
   written |-> BadRaw, reread |-> unmarshalMessage(BadRaw)]

\* NewSystemMessage / NewUserMessage / NewToolMessage: the bytes are those
\* json.Marshal wrote when the message was made
MessageFromFactory ==
  /\ codec.pc = "idle"
  /\ \E m \in FactoryMessages :
       codec' = [MessageIdle EXCEPT !.pc = "made", !.source = "factory",
                                    !.bytes = jsonMarshalMessage(m.parsed), !.message = m]
  /\ UNCHANGED <<config, compaction, stored, origin, pc, op, state, request, messages,
                 iteration, maxIter, firstCall, lastCall, finishes, compactAt, compacted,
                 result, executed, usages, compactionRequest, log, inflight>>

\* Client.UnmarshalMessage(data)
MessageFromUnmarshal ==
  /\ codec.pc = "idle"
  /\ \E data \in StoredBytes :
       codec' = [MessageIdle EXCEPT !.pc = "made", !.source = "unmarshal",
                                    !.bytes = data, !.message = unmarshalMessage(data)]
  /\ UNCHANGED <<config, compaction, stored, origin, pc, op, state, request, messages,
                 iteration, maxIter, firstCall, lastCall, finishes, compactAt, compacted,
                 result, executed, usages, compactionRequest, log, inflight>>

\* Client.ChatCompletion: the message of the response
MessageFromResponse ==
  /\ codec.pc = "idle"
  /\ \E wire \in ResponseBytes :
       codec' = [MessageIdle EXCEPT !.pc = "made", !.source = "response",
                                    !.bytes = wire, !.message = ChatCompletionMessage(wire)]
  /\ UNCHANGED <<config, compaction, stored, origin, pc, op, state, request, messages,
                 iteration, maxIter, firstCall, lastCall, finishes, compactAt, compacted,
                 result, executed, usages, compactionRequest, log, inflight>>

\* encodeState writes the message into a state
MessageWrite ==
  /\ codec.pc = "made"
  /\ codec' = [codec EXCEPT !.pc = "written",
                             !.written = encodeState(<<codec.message>>, 1).messages[1]]
  /\ UNCHANGED <<config, compaction, stored, origin, pc, op, state, request, messages,
                 iteration, maxIter, firstCall, lastCall, finishes, compactAt, compacted,
                 result, executed, usages, compactionRequest, log, inflight>>

\* UnmarshalMessage reads the written bytes back
MessageReread ==
  /\ codec.pc = "written"
  /\ ~unmarshalMessageFails(codec.written)
  /\ codec' = [codec EXCEPT !.pc = "reread", !.reread = unmarshalMessage(codec.written)]
  /\ UNCHANGED <<config, compaction, stored, origin, pc, op, state, request, messages,
                 iteration, maxIter, firstCall, lastCall, finishes, compactAt, compacted,
                 result, executed, usages, compactionRequest, log, inflight>>

MessageReset ==
  /\ codec.pc \in {"written", "reread"}
  /\ codec' = MessageIdle
  /\ UNCHANGED <<config, compaction, stored, origin, pc, op, state, request, messages,
                 iteration, maxIter, firstCall, lastCall, finishes, compactAt, compacted,
                 result, executed, usages, compactionRequest, log, inflight>>

(* ------------------------- the compactor alone ------------------------ *)

\* one message of each role
HistoryMessages ==
  {NewSystemMessage("s"), NewUserMessage("u"), ResponseMessage("ok", <<>>),
   NewToolMessage("t1", "42")}

\* the histories handed to the compactor: up to two messages beyond the limit
Histories == UNION {[1..n -> HistoryMessages] : n \in 0..(LimitK + 2)}

\* MessageLimitCompactor.MaxMessages: negative, zero (no limit), or a limit
MaxMessagesChoices == (0 - 1)..LimitK

\* MessageLimitCompactor{MaxMessages}.Compact(request)
CompactionCompact ==
  /\ compaction.pc = "idle"
  /\ \E maxMessages \in MaxMessagesChoices, history \in Histories :
       LET req == CompactionRequest(history, <<>>, Usage(history))
       IN compaction' = [pc |-> "compacted", MaxMessages |-> maxMessages, request |-> req,
                         response |-> MessageLimitCompact(maxMessages, req),
                         advanced |-> <<>>]
  /\ UNCHANGED <<config, codec, stored, origin, pc, op, state, request, messages,
                 iteration, maxIter, firstCall, lastCall, finishes, compactAt, compacted,
                 result, executed, usages, compactionRequest, log, inflight>>

\* AdvanceToFirstUserMessage(messages)
CompactionAdvance ==
  /\ compaction.pc = "idle"
  /\ \E history \in Histories :
       compaction' = [pc |-> "advanced", MaxMessages |-> 0,
                      request |-> CompactionRequest(history, <<>>, Usage(history)),
                      response |-> NewNotCompactedMessagesResponse(NoCompactionRequest),
                      advanced |-> AdvanceToFirstUserMessage(history)]
  /\ UNCHANGED <<config, codec, stored, origin, pc, op, state, request, messages,
                 iteration, maxIter, firstCall, lastCall, finishes, compactAt, compacted,
                 result, executed, usages, compactionRequest, log, inflight>>

CompactionReset ==
  /\ compaction.pc \in {"compacted", "advanced"}
  /\ compaction' = CompactionIdle
  /\ UNCHANGED <<config, codec, stored, origin, pc, op, state, request, messages,
                 iteration, maxIter, firstCall, lastCall, finishes, compactAt, compacted,
                 result, executed, usages, compactionRequest, log, inflight>>

(* ------------------- token limit and composites alone ------------------ *)

\* the usage figures a request carries: none, or prompt tokens around the limits
UsageChoices == {NoUsage} \cup {[PromptTokens |-> n] : n \in 0..(LimitK + 1)}

\* the compactors and triggers put into a composite
Components ==
  {MessageLimitCompactor(0), MessageLimitCompactor(LimitK),
   TokenLimitCompactor(0), TokenLimitCompactor(LimitK),
   FailingCompactor, DroppingCompactor(FALSE), DroppingCompactor(TRUE)}

ComponentLists == UNION {[1..n -> Components] : n \in 0..2}

CompositeIdle ==
  [pc |-> "idle", components |-> <<>>, request |-> NoCompactionRequest,
   response |-> NewNotCompactedMessagesResponse(NoCompactionRequest),
   triggered |-> [response |-> FALSE, err |-> FALSE]]

\* TokenLimitCompactor{MaxTokens}.Compact(request)
TokenCompact ==
  /\ compaction.pc = "idle"
  /\ \E maxTokens \in 0..LimitK, history \in Histories, usage \in UsageChoices :
       LET req == CompactionRequest(history, <<>>, usage)
       IN compaction' = [CompositeIdle EXCEPT
                           !.pc = "token",
                           !.components = <<TokenLimitCompactor(maxTokens)>>,
                           !.request = req,
                           !.response = TokenLimitCompact(maxTokens, req)]
  /\ UNCHANGED <<config, codec, stored, origin, pc, op, state, request, messages,
                 iteration, maxIter, firstCall, lastCall, finishes, compactAt, compacted,
                 result, executed, usages, compactionRequest, log, inflight>>

\* CompositeCompactor{Compactors}.Compact(request)
CompositeCompactorCompact ==
  /\ compaction.pc = "idle"
  /\ \E compactors \in ComponentLists, history \in {h \in Histories : Len(h) <= LimitK + 1},
        usage \in {NoUsage, [PromptTokens |-> LimitK + 1]} :
       LET req == CompactionRequest(history, <<>>, usage)
       IN compaction' = [CompositeIdle EXCEPT
                           !.pc = "composite",
                           !.components = compactors,
                           !.request = req,
                           !.response = CompositeCompact(compactors, req)]
  /\ UNCHANGED <<config, codec, stored, origin, pc, op, state, request, messages,
                 iteration, maxIter, firstCall, lastCall, finishes, compactAt, compacted,
                 result, executed, usages, compactionRequest, log, inflight>>

\* CompositeCompactionTrigger{Triggers}.ShouldCompact(request)
CompositeTriggerShouldCompact ==
  /\ compaction.pc = "idle"
  /\ \E triggers \in ComponentLists, history \in {h \in Histories : Len(h) <= LimitK + 1},
        usage \in {NoUsage, [PromptTokens |-> LimitK + 1]} :
       LET req == CompactionRequest(history, <<>>, usage)
       IN compaction' = [CompositeIdle EXCEPT
                           !.pc = "trigger",
                           !.components = triggers,
                           !.request = req,
                           !.triggered = CompositeShouldCompact(triggers, req)]
  /\ UNCHANGED <<config, codec, stored, origin, pc, op, state, request, messages,
                 iteration, maxIter, firstCall, lastCall, finishes, compactAt, compacted,
                 result, executed, usages, compactionRequest, log, inflight>>

CompositeReset ==
  /\ compaction.pc \in {"token", "composite", "trigger"}
  /\ compaction' = CompositeIdle
  /\ UNCHANGED <<config, codec, stored, origin, pc, op, state, request, messages,
                 iteration, maxIter, firstCall, lastCall, finishes, compactAt, compacted,
                 result, executed, usages, compactionRequest, log, inflight>>

(* ------------------------------- the caller ---------------------------- *)

\* origin for the messages of result.newState: AppendToState keeps what it
\* decoded and adds the option messages; ChatWithState has processed them all
ResultOrigin ==
  IF op = "append"
    THEN (IF decodeState(state).messages = <<>> THEN <<>> ELSE origin)
           \o [i \in 1..Len(request.messages) |-> "append"]
    ELSE [i \in 1..Len(result.newState.messages) |-> "chat"]

\* the call has returned and the caller is left with newStored
Returned(newStored, newOrigin) ==
  /\ pc \in {"return", "error"}
  /\ stored' = newStored
  /\ origin' = newOrigin
  /\ pc' = "idle"
  /\ op' = "none"
  /\ state' = NilState
  /\ request' = NoRequest
  /\ messages' = <<>>
  /\ iteration' = 0
  /\ maxIter' = 0
  /\ firstCall' = <<>>
  /\ lastCall' = <<>>
  /\ finishes' = <<>>
  /\ compactAt' = {}
  /\ compacted' = NotInvoked
  /\ result' = NoResult
  /\ executed' = <<>>
  /\ usages' = <<>>
  /\ compactionRequest' = NoCompactionRequest
  /\ log' = <<>>
  /\ UNCHANGED <<config, codec, compaction, inflight>>

\* the caller keeps the new state of a successful call, and starts a new
\* conversation when that state has outgrown MaxStateLen
Return ==
  IF pc # "return" THEN Returned(stored, origin)
  ELSE IF Len(result.newState.messages) <= MaxStateLen
    THEN Returned(result.newState, ResultOrigin)
    ELSE Returned(NilState, <<>>)

\* Chat returns the text and the error: the new state is dropped
ChatReturn == Returned(stored, origin)

\* a conversation kept in a stored state
Next ==
  \/ StartChatWithState
  \/ BackendFails
  \/ RespondStop
  \/ RespondToolCalls
  \/ RespondLength
  \/ RespondUnknown
  \/ IterationsExceeded
  \/ AppendToState
  \/ Return

Spec == Init /\ [][Next]_vars

\* stateless calls of Chat
ChatNext ==
  \/ StartChat
  \/ BackendFails
  \/ RespondStop
  \/ RespondToolCalls
  \/ RespondLength
  \/ RespondUnknown
  \/ IterationsExceeded
  \/ ChatReturn

ChatSpec == ChatInit /\ [][ChatNext]_vars

\* encodeState and decodeState called on their own
CodecInit ==
  /\ MaxToolIterations = 0
  /\ LogToolArguments = FALSE
  /\ Compactor = "none"
  /\ stored = NilState
  /\ origin = <<>>
  /\ codec = CodecIdle
  /\ compaction = CompactionIdle
  /\ inflight = [p \in Callers |-> NoCall]
  /\ AtRest

CodecNext ==
  \/ CodecEncode
  \/ CodecDamage
  \/ CodecDecode
  \/ CodecReset

CodecSpec == CodecInit /\ [][CodecNext]_vars

\* MessageLimitCompactor and AdvanceToFirstUserMessage called on their own
CompactionInit ==
  /\ MaxToolIterations = 0
  /\ LogToolArguments = FALSE
  /\ Compactor = "limit"
  /\ stored = NilState
  /\ origin = <<>>
  /\ codec = CodecIdle
  /\ compaction = CompactionIdle
  /\ inflight = [p \in Callers |-> NoCall]
  /\ AtRest

CompactionNext ==
  \/ CompactionCompact
  \/ CompactionAdvance
  \/ CompactionReset

CompactionSpec == CompactionInit /\ [][CompactionNext]_vars

\* one message: made, written into a state, read back
MessageInit ==
  /\ MaxToolIterations = 0
  /\ LogToolArguments = FALSE
  /\ Compactor = "none"
  /\ stored = NilState
  /\ origin = <<>>
  /\ codec = MessageIdle
  /\ compaction = CompactionIdle
  /\ inflight = [p \in Callers |-> NoCall]
  /\ AtRest

MessageNext ==
  \/ MessageFromFactory
  \/ MessageFromUnmarshal
  \/ MessageFromResponse
  \/ MessageWrite
  \/ MessageReread
  \/ MessageReset

MessageSpec == MessageInit /\ [][MessageNext]_vars

\* TokenLimitCompactor, CompositeCompactor and CompositeCompactionTrigger
\* called on their own
CompositeInit ==
  /\ MaxToolIterations = 0
  /\ LogToolArguments = FALSE
  /\ Compactor = "none"
  /\ stored = NilState
  /\ origin = <<>>
  /\ codec = CodecIdle
  /\ compaction = CompositeIdle
  /\ inflight = [p \in Callers |-> NoCall]
  /\ AtRest

CompositeNext ==
  \/ TokenCompact
  \/ CompositeCompactorCompact
  \/ CompositeTriggerShouldCompact
  \/ CompositeReset

CompositeSpec == CompositeInit /\ [][CompositeNext]_vars

\* every backend call, tool execution and compactor call returns, and the
\* caller goes on calling
FairChatSpec == ChatSpec /\ WF_vars(ChatNext)

(* ============================== properties ============================= *)

Terminal == pc \in {"return", "error"}

ChatDone == op = "chat" /\ Terminal

ChatSucceeded == op = "chat" /\ pc = "return"

AppendDone == op = "append" /\ pc = "return"

\* the decoded history of the state the call returned
ReturnedHistory == decodeState(result.newState).messages

\* the option messages split as the claims describe them: P is the longest
\* prefix of system messages, R is the rest
PreambleLength(opts) ==
  CHOOSE k \in 0..Len(opts) :
    /\ \A i \in 1..k : Role(opts[i]) = RoleSystem
    /\ k = Len(opts) \/ Role(opts[k + 1]) # RoleSystem

Preamble(opts) == SubSeq(opts, 1, PreambleLength(opts))

Remainder(opts) == SubSeq(opts, PreambleLength(opts) + 1, Len(opts))

\* the messages the call itself produced: assistant and tool messages
Produced == DropFirst(messages, Len(firstCall))

AllToolCalls == \A i \in 1..Len(finishes) : finishes[i] = FinishReasonToolCalls

\* C1: every ChatWithState call makes at most maxIter backend calls, and once
\* inside the loop it reaches return or error, whatever the backend answers.
C1_TerminatesWithinMaxIter ==
  /\ [](op = "chat" => Len(finishes) <= (IF maxIter > 0 THEN maxIter ELSE 0))
  /\ ((pc = "loop") ~> Terminal)

\* a call that ran the default ten iterations and then ended
C1_Witness ==
  ChatDone /\ maxIter = DefaultMaxIterations /\ Len(finishes) = DefaultMaxIterations

\* C2: a call whose every backend answer is TOOL_CALLS ends, after exactly
\* maxIter backend calls, with the error "exceeded max tool iterations (maxIter)".
C2_AllToolCallsExceeds ==
  (ChatDone /\ AllToolCalls) =>
     /\ pc = "error"
     /\ result.status = "error"
     /\ result.err = [msg |-> "exceeded max tool iterations", n |-> maxIter]
     /\ Len(finishes) = maxIter

C2_Witness ==
  /\ ChatDone /\ AllToolCalls
  /\ Len(finishes) = 3
  /\ result.err = [msg |-> "exceeded max tool iterations", n |-> 3]

\* C3: the loop bound is the per-call option when given, otherwise the Chat
\* field when it is set (positive), otherwise 10.
C3_MaxIterPriority ==
  op = "chat" =>
    maxIter = (CASE request.maxToolIterations.set -> request.maxToolIterations.val
                 [] ~request.maxToolIterations.set /\ MaxToolIterations > 0 -> MaxToolIterations
                 [] OTHER -> 10)

\* a per-call option that differs from the field that is set as well
C3_Witness ==
  /\ op = "chat"
  /\ request.maxToolIterations.set
  /\ MaxToolIterations > 0
  /\ request.maxToolIterations.val # MaxToolIterations
  /\ maxIter = request.maxToolIterations.val

\* C4: the compactor is invoked only in the iteration whose finish reason is
\* STOP: in no iteration that answered TOOL_CALLS, and in no call that ended
\* with LENGTH, an unknown finish reason, a backend error or the iteration bound.
C4_CompactOnlyOnStop ==
  /\ \A i \in compactAt : i + 1 <= Len(finishes) /\ finishes[i + 1] = FinishReasonStop
  /\ compactAt # {} => Terminal
  /\ (pc = "error" /\ result.err.msg # "compaction failed") => compactAt = {}

\* a compactor invoked on the STOP that follows tool-call iterations
C4_Witness ==
  /\ ChatDone
  /\ compactAt = {Len(finishes) - 1}
  /\ Len(finishes) >= 2
  /\ finishes[1] = FinishReasonToolCalls

\* C5 as stated: with a compactor present, the history encoded on STOP is the
\* history of the compactor's response, whatever the response.
C5_EncodesResponseHistory ==
  (ChatSucceeded /\ compacted.invoked) => ReturnedHistory = compacted.StateMessages

\* C5 amended: the history encoded on STOP is the history of the compactor's
\* response when the response reports WasCompacted; otherwise it is the
\* stripped working list, whatever history the response carries.
C5_EncodesResponseWhenCompacted ==
  (ChatSucceeded /\ compacted.invoked) =>
     ReturnedHistory = (IF compacted.WasCompacted THEN compacted.StateMessages
                        ELSE DropFirst(messages, Len(Preamble(messages))))

\* a response that reports a compaction and carries another history than the stripped one
C5_Witness ==
  /\ ChatSucceeded /\ compacted.invoked /\ compacted.WasCompacted
  /\ compacted.StateMessages # DropFirst(messages, Len(Preamble(messages)))

\* C6: the first backend call receives P ++ S ++ R: the leading system
\* options, the decoded stored history, the remaining options in order.
C6_FirstCallMessages ==
  (op = "chat" /\ finishes # <<>>) =>
     firstCall = Preamble(request.messages) \o decodeState(state).messages
                   \o Remainder(request.messages)

C6_Witness ==
  /\ op = "chat" /\ finishes # <<>>
  /\ Preamble(request.messages) # <<>>
  /\ decodeState(state).messages # <<>>
  /\ Remainder(request.messages) # <<>>

C8_InlineSystemPersisted ==
  (ChatSucceeded /\ ~compacted.WasCompacted) =>
     LET h == ReturnedHistory
         tail == Remainder(request.messages) \o Produced
     IN /\ Len(h) >= Len(tail)
        /\ SubSeq(h, Len(h) - Len(tail) + 1, Len(h)) = tail
        /\ Role(h[Len(h)]) = RoleAssistant /\ Content(h[Len(h)]) = result.text

\* a system option after the first non-system option
C8_Witness ==
  /\ ChatSucceeded /\ ~compacted.WasCompacted
  /\ \E i \in 1..Len(Remainder(request.messages)) :
       Role(Remainder(request.messages)[i]) = RoleSystem

\* C9: AppendToState returns a state whose decoded history is the decoded
\* history of its state argument followed by the option messages.
C9_AppendExtendsHistory ==
  AppendDone => ReturnedHistory = decodeState(state).messages \o request.messages

C9_Witness ==
  AppendDone /\ decodeState(state).messages # <<>> /\ request.messages # <<>>

\* C10: AppendToState returns a state with the processed length of its state
\* argument, also when that argument came from an earlier AppendToState.
C10_AppendKeepsProcessedLength ==
  AppendDone =>
    decodeState(result.newState).processedLength = decodeState(state).processedLength

\* an append to a state that already holds appended, unprocessed messages
C10_Witness ==
  /\ AppendDone
  /\ request.messages # <<>>
  /\ decodeState(state).processedLength > 0
  /\ decodeState(state).processedLength < Len(decodeState(state).messages)

\* C11: AppendToState makes no backend call, runs no tool and calls no
\* compactor, and the state it returns is the one the same call returns
\* without its tool options (WithTools, WithMaxToolIterations).
C11_AppendNoProviderInteraction ==
  AppendDone =>
    /\ finishes = <<>> /\ firstCall = <<>>
    /\ executed = <<>>
    /\ compactAt = {} /\ ~compacted.invoked
    /\ result.status = "ok"
    /\ result.newState =
         AppendToStateResult(state, [messages |-> request.messages, tools |-> <<>>,
                                     maxToolIterations |-> NoOverride])

\* an append given a tool set and an iteration bound
C11_Witness ==
  /\ AppendDone
  /\ request.tools # <<>> /\ request.maxToolIterations.set
  /\ request.messages # <<>>
  /\ decodeState(state).messages # <<>>

\* the codec decoded a blob exactly as encodeState wrote it
RoundTripDone == codec.pc = "decoded" /\ codec.damage = "none"

\* C12: decodeState(encodeState(M, p)) gives M and p back: as many messages,
\* in the same order, each with the bytes of the original, and the same
\* processed length, for any p (negative and beyond the length included).
C12_RoundTrip ==
  RoundTripDone =>
    /\ Len(codec.decoded.messages) = Len(codec.messages)
    /\ \A i \in 1..Len(codec.messages) :
         codec.decoded.messages[i].rawJSON = codec.messages[i].rawJSON
    /\ codec.decoded.processedLength = codec.processed_len
    /\ codec.decoded.logged = ""

\* a history holding a message with an unknown field next to one made by the
\* factory, encoded with a processed length beyond its length
C12_Witness ==
  /\ RoundTripDone
  /\ Len(codec.messages) = 2
  /\ codec.messages[1].rawJSON.extra # "none"
  /\ codec.messages[2] = NewUserMessage("u")
  /\ codec.processed_len > Len(codec.messages)

\* a state handed back by a call keeps its processed length within its
\* history, and what lies beyond the processed length came from AppendToState
WellFormedState(st, org) ==
  st.kind = "json" =>
    /\ st.processed_length >= 0
    /\ st.processed_length <= Len(st.messages)
    /\ Len(org) = Len(st.messages)
    /\ \A i \in 1..Len(st.messages) : i > st.processed_length => org[i] = "append"

\* C13: in every state a sequence of ChatWithState and AppendToState calls
\* produces from the empty state, the processed length is at most the number
\* of messages, and every message from that index on was put there by
\* AppendToState.
C13_ProcessedLengthWithinHistory ==
  /\ WellFormedState(stored, origin)
  /\ pc = "return" => WellFormedState(result.newState, ResultOrigin)

\* a state holding processed messages followed by appended ones
C13_Witness ==
  /\ stored.kind = "json"
  /\ stored.processed_length > 0
  /\ stored.processed_length < Len(stored.messages)
  /\ origin[stored.processed_length] = "chat"
  /\ pc = "return" /\ op = "append" /\ state = stored /\ request.messages # <<>>

\* C14: the state a successful ChatWithState returns has a processed length
\* equal to the length of its history, also when the compactor shortened the
\* history and when the state argument held appended, unprocessed messages.
C14_ChatProcessesAll ==
  ChatSucceeded =>
    /\ result.newState.processed_length = Len(result.newState.messages)
    /\ decodeState(result.newState).processedLength = Len(ReturnedHistory)

\* a call on a state with unprocessed messages whose history the compactor shortened
C14_Witness ==
  /\ ChatSucceeded
  /\ decodeState(state).processedLength < Len(decodeState(state).messages)
  /\ compacted.invoked /\ compacted.WasCompacted
  /\ Len(ReturnedHistory) < Len(stripLeadingSystemMessages(messages))

\* the codec decoded a blob that did not come back as it was written
DegradedDone == codec.pc = "decoded" /\ codec.damage # "none"

\* C15: decodeState gives the empty result (no message, processed length 0)
\* when the input is absent or empty, does not parse, carries another version
\* than 1 or another provider than the backend's, or holds a message that
\* cannot be rebuilt.
C15_DecodeDegradesToEmpty ==
  DegradedDone =>
    /\ codec.decoded.messages = <<>>
    /\ codec.decoded.processedLength = 0

\* a blob with messages and a processed length, one message damaged
C15_Witness ==
  /\ DegradedDone /\ codec.damage = "message"
  /\ Len(codec.messages) > 1 /\ codec.processed_len > 0

\* C16 as stated: every decode that degrades to the empty result, an absent
\* or empty input included, is reported to the logger with its cause.
C16_EveryDegradationLogged ==
  DegradedDone => codec.decoded.logged # ""

\* C16 amended: a decode that degrades because the input does not parse,
\* carries an unsupported version or another provider, or holds a message
\* that cannot be rebuilt is reported to the logger with that cause; an
\* absent or empty input is decoded to the empty result without a report.
C16_DamageLogged ==
  DegradedDone =>
    codec.decoded.logged =
      (CASE codec.damage = "garbage" -> "invalid_conversation_state"
         [] codec.damage = "version" -> "unsupported_state_version"
         [] codec.damage = "provider" -> "provider_mismatch"
         [] codec.damage = "message" -> "message_unmarshal_failed"
         [] OTHER -> "")

\* the state of another provider, discarded and reported
C16_Witness ==
  /\ DegradedDone /\ codec.damage = "provider"
  /\ codec.messages # <<>>
  /\ codec.decoded.logged = "provider_mismatch"

\* a state that is there and is not one this backend wrote under version 1
\* with every message intact
Undecodable(st) ==
  \/ st.kind = "garbage"
  \/ /\ st.kind = "json"
     /\ \/ st.version # 1
        \/ st.provider # "openai"
        \/ \E i \in 1..Len(st.messages) : ~st.messages[i].ok

\* the errors a ChatWithState call on an empty state can return
CallErrors ==
  {"backend error", "compaction failed", "conversation exceeded max tokens",
   "unknown finish reason", "exceeded max tool iterations"}

\* C17: a ChatWithState call whose state does not decode goes on as the same
\* call on an empty state: its backend calls receive the option messages and
\* what the call produced, nothing of the state; the state it returns is
\* built from those alone; its errors are those of the call itself.
C17_BadStateProceedsFromScratch ==
  (op = "chat" /\ Undecodable(state)) =>
    /\ finishes # <<>> => firstCall = buildMessages(request.messages, <<>>)
    /\ Len(messages) >= Len(request.messages)
    /\ SubSeq(messages, 1, Len(request.messages)) = request.messages
    /\ \A i \in (Len(request.messages) + 1)..Len(messages) :
         Role(messages[i]) \in {RoleAssistant, RoleTool}
    /\ pc = "return" =>
         /\ result.status = "ok"
         /\ ReturnedHistory =
              (IF compacted.WasCompacted THEN compacted.StateMessages
               ELSE stripLeadingSystemMessages(request.messages \o Produced))
    /\ pc = "error" => result.err.msg \in CallErrors

\* a kept history handed back under another provider's name, in a call that
\* used a tool and returned
C17_Witness ==
  /\ ChatSucceeded /\ Undecodable(state)
  /\ state.provider = "other" /\ state.messages # <<>>
  /\ Len(finishes) = 2
  /\ request.messages # <<>>

\* this step is a backend answer with finish reason TOOL_CALLS
ToolCallsAnswered ==
  /\ Len(finishes') = Len(finishes) + 1
  /\ finishes'[Len(finishes')] = FinishReasonToolCalls

\* the step answered every call of the response and stays in the loop
BatchAnswered ==
  /\ Len(messages') > Len(messages)
  /\ Role(messages'[Len(messages) + 1]) = RoleAssistant
  /\ Len(messages') = Len(messages) + 1 + Len(ToolCalls(messages'[Len(messages) + 1]))
  /\ executed' = executed \o ToolRequests(ToolCalls(messages'[Len(messages) + 1]))
  /\ pc' = "loop" /\ iteration' = iteration + 1
  /\ result' = NoResult

\* C18: when the execute of a tool returns an error, the call is not
\* aborted: the tool message for that call carries "Error: " and the
\* error's text, the remaining calls of the batch are run and answered, and
\* the loop goes on to its next iteration.
C18_ToolErrorInBand ==
  [][ToolCallsAnswered =>
       /\ BatchAnswered
       /\ LET calls == ToolCalls(messages'[Len(messages) + 1])
          IN \A i \in 1..Len(calls) :
               (getTool(request.tools, calls[i].name)
                  /\ ToolExecute(calls[i].name, ToolRequest(calls[i])).err = "boom")
               => LET m == messages'[Len(messages) + 1 + i]
                  IN /\ Role(m) = RoleTool
                     /\ ToolCallID(m) = calls[i].id
                     /\ Content(m) = "Error: boom"]_vars

\* a failed tool answered in band, the call after it answered too, and the
\* backend called again
C18_Witness ==
  /\ op = "chat" /\ Len(finishes) = 2
  /\ \E j \in 1..Len(messages) :
       /\ Role(messages[j]) = RoleAssistant
       /\ Len(ToolCalls(messages[j])) = 2
       /\ ToolCalls(messages[j])[1].name = "fail"
       /\ Len(messages) >= j + 2
       /\ Content(messages[j + 1]) = "Error: boom"
       /\ Role(messages[j + 2]) = RoleTool

\* C19: for a call naming a tool that is not in the set, the runner returns
\* the result "Error: tool not found" and no error; that result reaches the
\* model as the tool message of the call, and the loop goes on.
C19_ToolNotFoundInBand ==
  [][ToolCallsAnswered =>
       /\ BatchAnswered
       /\ LET calls == ToolCalls(messages'[Len(messages) + 1])
          IN \A i \in 1..Len(calls) :
               (\A t \in 1..Len(request.tools) : request.tools[t] # calls[i].name)
               => LET m == messages'[Len(messages) + 1 + i]
                      r == Runner(request.tools, ToolRequest(calls[i]))
                  IN /\ r.err = "" /\ r.Result = "Error: tool not found"
                     /\ Role(m) = RoleTool
                     /\ ToolCallID(m) = calls[i].id
                     /\ Content(m) = r.Result]_vars

\* a call of a tool that is not in the set, answered, and the backend called again
C19_Witness ==
  /\ op = "chat" /\ Len(finishes) = 2
  /\ \E i \in 1..Len(executed) :
       /\ executed[i].Name = "missing"
       /\ \A t \in 1..Len(request.tools) : request.tools[t] # "missing"
  /\ \E j \in 1..Len(lastCall) :
       Role(lastCall[j]) = RoleTool /\ Content(lastCall[j]) = "Error: tool not found"

\* what the tools of the caller answer to a call
ExpectedToolContent(call) ==
  CASE call.name = "echo" -> call.arguments
    [] call.name = "fail" -> "Error: boom"
    [] OTHER -> "Error: tool not found"

\* index of the last assistant message of msgs, 0 when there is none
LastAssistant(msgs) ==
  IF \E j \in 1..Len(msgs) : Role(msgs[j]) = RoleAssistant
    THEN CHOOSE j \in 1..Len(msgs) :
           /\ Role(msgs[j]) = RoleAssistant
           /\ \A l \in (j + 1)..Len(msgs) : Role(msgs[l]) # RoleAssistant
    ELSE 0

\* C20: the backend call that follows a TOOL_CALLS response with calls
\* c1..ck receives a list ending with the assistant message of that response
\* and then exactly k tool messages in call order, the i-th with the id of ci
\* and the result of executing ci.
C20_ToolResultsFollowCalls ==
  (op = "chat" /\ Len(finishes) >= 2) =>
    LET j == LastAssistant(lastCall)
    IN /\ finishes[Len(finishes) - 1] = FinishReasonToolCalls
       /\ j > 0
       /\ Len(lastCall) = j + Len(ToolCalls(lastCall[j]))
       /\ \A i \in 1..Len(ToolCalls(lastCall[j])) :
            /\ Role(lastCall[j + i]) = RoleTool
            /\ ToolCallID(lastCall[j + i]) = ToolCalls(lastCall[j])[i].id
            /\ Content(lastCall[j + i]) = ExpectedToolContent(ToolCalls(lastCall[j])[i])

\* two calls answered in order before the next backend call
C20_Witness ==
  /\ op = "chat" /\ Len(finishes) >= 2
  /\ Len(lastCall) >= 3
  /\ Len(ToolCalls(lastCall[Len(lastCall) - 2])) = 2
  /\ ToolCallID(lastCall[Len(lastCall) - 1]) = "t1"
  /\ ToolCallID(lastCall[Len(lastCall)]) = "t2"

IsPrefix(s, t) == Len(s) <= Len(t) /\ SubSeq(t, 1, Len(s)) = s

\* C21: within one ChatWithState call, the list handed to a backend call is
\* the list handed to the previous backend call with messages added at its
\* end: nothing is removed and nothing changes place.
C21_WorkingListGrowsAtEnd ==
  [][(Len(finishes') = Len(finishes) + 1 /\ finishes # <<>>) =>
       /\ IsPrefix(lastCall, lastCall')
       /\ Len(lastCall') > Len(lastCall)
       /\ IsPrefix(firstCall, lastCall')
       /\ lastCall' = messages]_vars

\* a third backend call, after a round that ran two tools
C21_Witness ==
  /\ op = "chat" /\ Len(finishes) = 3
  /\ Len(lastCall) >= Len(firstCall) + 4
  /\ Len(executed) = 2

\* the backend calls of this call that returned an error
FailedCalls == {i \in 1..Len(finishes) : finishes[i] = "error"}

\* C22: when a backend call returns an error, ChatWithState returns that
\* error: the failed call is its last backend call, no tool runs and no
\* compactor is called after it, and nothing is added to the working list.
C22_BackendErrorAborts ==
  (op = "chat" /\ FailedCalls # {}) =>
    /\ FailedCalls = {Len(finishes)}
    /\ pc = "error"
    /\ result = Failure("backend error", 0)
    /\ messages = lastCall
    /\ Len(usages) = Len(finishes) - 1
    /\ Len(executed) = Len(SelectSeq(messages, LAMBDA m : Role(m) = RoleTool))
                         - Len(SelectSeq(firstCall, LAMBDA m : Role(m) = RoleTool))
    /\ compactAt = {} /\ ~compacted.invoked

\* a backend error in the iteration after one that ran tools
C22_Witness ==
  /\ op = "chat" /\ pc = "error"
  /\ Len(finishes) = 2 /\ finishes[2] = "error"
  /\ Len(executed) = 2
  /\ Compactor # "none"

\* C23: when the compactor returns an error, ChatWithState returns the error
\* "compaction failed", and with it neither the text of the assistant nor a state.
C23_CompactorErrorAborts ==
  (op = "chat" /\ compacted.invoked /\ compacted.err) =>
    /\ pc = "error"
    /\ result.status = "error"
    /\ result.err.msg = "compaction failed"
    /\ result.text = ""
    /\ result.newState = NilState

\* a compactor failing on the STOP that follows a tool round
C23_Witness ==
  /\ op = "chat" /\ compacted.invoked /\ compacted.err
  /\ Len(finishes) = 2 /\ finishes[2] = FinishReasonStop
  /\ executed # <<>>

C25_CompactorSeesLatestUsage ==
  (op = "chat" /\ compacted.invoked) =>
    /\ Len(usages) = Len(finishes)
    /\ finishes[Len(finishes)] = FinishReasonStop
    /\ compactionRequest.LastAPIUsage = usages[Len(usages)]
    /\ compactionRequest.LastAPIUsage = Usage(lastCall)

\* a compactor called after an earlier response that reported another usage
C25_Witness ==
  /\ op = "chat" /\ compacted.invoked
  /\ Len(usages) = 2
  /\ usages[1] # usages[2]
  /\ compactionRequest.LastAPIUsage = usages[2]

\* the compactor alone has returned: its limit, its input and its output
Compacted == compaction.pc = "compacted"

LimitExceeded ==
  compaction.MaxMessages > 0
    /\ Len(compaction.request.StateMessages) > compaction.MaxMessages

\* C26: MessageLimitCompactor compacts exactly when MaxMessages > 0 and the
\* history is longer than MaxMessages; otherwise it returns the history it
\* was given with WasCompacted = false.
C26_CompactsExactlyOverLimit ==
  Compacted =>
    /\ compaction.response.WasCompacted <=> LimitExceeded
    /\ ~compaction.response.err
    /\ ~LimitExceeded => compaction.response.StateMessages = compaction.request.StateMessages

\* a history exactly at the limit, left as it is
C26_Witness ==
  /\ Compacted
  /\ compaction.MaxMessages = 2 /\ Len(compaction.request.StateMessages) = 2
  /\ ~compaction.response.WasCompacted
  /\ compaction.response.StateMessages = compaction.request.StateMessages

\* the result is within k messages and starts, if at all, with a user message
WithinLimitAtUser(k, h) == Len(h) <= k /\ (h = <<>> \/ Role(h[1]) = RoleUser)

\* C27 as stated: for any MaxMessages = k and a history longer than k, the
\* result has at most k messages and its first message, if any, is a user message.
C27_WithinLimit ==
  (Compacted /\ Len(compaction.request.StateMessages) > compaction.MaxMessages) =>
    WithinLimitAtUser(compaction.MaxMessages, compaction.response.StateMessages)

\* C27 amended: for MaxMessages = k > 0 and a history longer than k, the
\* result has at most k messages and its first message, if any, is a user message.
C27_WithinPositiveLimit ==
  (Compacted /\ LimitExceeded) =>
    WithinLimitAtUser(compaction.MaxMessages, compaction.response.StateMessages)

\* the last k messages began inside a turn: the result is shorter than k
C27_Witness ==
  /\ Compacted /\ LimitExceeded
  /\ compaction.response.StateMessages # <<>>
  /\ Len(compaction.response.StateMessages) < compaction.MaxMessages

\* C28: AdvanceToFirstUserMessage returns the history from its first user
\* message on, unchanged and in order, and the empty sequence when the
\* history holds no user message.
C28_AdvanceToFirstUser ==
  compaction.pc = "advanced" =>
    LET h == compaction.request.StateMessages
    IN IF \E i \in 1..Len(h) : Role(h[i]) = RoleUser
         THEN \E i \in 1..Len(h) :
                /\ Role(h[i]) = RoleUser
                /\ \A j \in 1..(i - 1) : Role(h[j]) # RoleUser
                /\ compaction.advanced = SubSeq(h, i, Len(h))
         ELSE compaction.advanced = <<>>

\* a history whose first user message comes after a system and an assistant message
C28_Witness ==
  /\ compaction.pc = "advanced"
  /\ Len(compaction.request.StateMessages) = 4
  /\ Role(compaction.request.StateMessages[1]) = RoleSystem
  /\ Role(compaction.request.StateMessages[2]) = RoleAssistant
  /\ Len(compaction.advanced) = 2


\* the position of the last user message of a history, 0 when it has none
LastUser(h) ==
  IF \E i \in 1..Len(h) : Role(h[i]) = RoleUser
    THEN CHOOSE i \in 1..Len(h) :
           Role(h[i]) = RoleUser /\ \A j \in (i + 1)..Len(h) : Role(h[j]) # RoleUser
    ELSE 0

\* the final turn: the last user message and every message after it
FinalTurn(h) == IF LastUser(h) = 0 THEN <<>> ELSE SubSeq(h, LastUser(h), Len(h))

IsSuffix(s, t) == Len(s) <= Len(t) /\ SubSeq(t, Len(t) - Len(s) + 1, Len(t)) = s

\* C29 as stated: compaction never touches the final turn; the last user
\* message of the input history and every message after it are still present
\* in the compacted history.
C29_FinalTurnKept ==
  (Compacted /\ LastUser(compaction.request.StateMessages) > 0) =>
    IsSuffix(FinalTurn(compaction.request.StateMessages), compaction.response.StateMessages)

\* C29 amended: MessageLimitCompactor returns a suffix of the input history,
\* and the final turn is still present whenever it has at most MaxMessages
\* messages; when the compactor compacts and the final turn is longer than
\* MaxMessages the compacted history is empty.
C29_FinalTurnKeptWithinLimit ==
  Compacted =>
    LET h == compaction.request.StateMessages
        r == compaction.response.StateMessages
    IN /\ IsSuffix(r, h)
       /\ LastUser(h) > 0 =>
            IF LimitExceeded /\ Len(FinalTurn(h)) > compaction.MaxMessages
              THEN r = <<>>
              ELSE IsSuffix(FinalTurn(h), r)

\* an earlier turn is dropped and the final turn is all that is kept
C29_Witness ==
  /\ Compacted /\ LimitExceeded
  /\ LastUser(compaction.request.StateMessages) > 1
  /\ compaction.response.StateMessages # <<>>
  /\ compaction.response.StateMessages = FinalTurn(compaction.request.StateMessages)


\* a turn of ChatWithState has succeeded under MessageLimitCompactor{LimitK}
LimitedTurnDone == ChatSucceeded /\ Compactor = "limit"

\* C30 as stated: with MessageLimitCompactor(k > 0) configured, after every
\* successful ChatWithState the decoded history of the returned state has at
\* most k messages and, when compaction ran in that turn, begins with a user
\* message; the returned state is accepted by the next turn.
C30_LimitHolds ==
  LimitedTurnDone =>
    /\ decodeState(result.newState).logged = ""
    /\ Len(ReturnedHistory) <= LimitK
    /\ compacted.WasCompacted =>
         (ReturnedHistory # <<>> /\ Role(ReturnedHistory[1]) = RoleUser)

\* C30 amended: ... and, when compaction ran in that turn, is empty or
\* begins with a user message; the returned state is accepted by the next turn.
C30_LimitHoldsOrEmpty ==
  LimitedTurnDone =>
    /\ decodeState(result.newState).logged = ""
    /\ Len(ReturnedHistory) <= LimitK
    /\ compacted.WasCompacted =>
         (ReturnedHistory = <<>> \/ Role(ReturnedHistory[1]) = RoleUser)
    /\ ~compacted.WasCompacted => ReturnedHistory = compactionRequest.StateMessages

\* a later turn of a conversation: the stored state came from an earlier turn,
\* compaction ran, and the history kept begins with a user message
C30_Witness ==
  /\ LimitedTurnDone
  /\ state = stored /\ stored.kind = "json" /\ stored.messages # <<>>
  /\ compacted.WasCompacted
  /\ Len(ReturnedHistory) = LimitK
  /\ Role(ReturnedHistory[1]) = RoleUser


\* the TokenLimitCompactor alone has returned
TokenCompacted == compaction.pc = "token"

TokenLimitExceeded ==
  /\ UsagePresent(compaction.request.LastAPIUsage)
  /\ compaction.components[1].max > 0
  /\ compaction.request.LastAPIUsage.PromptTokens > compaction.components[1].max

\* C31: TokenLimitCompactor compacts only when usage is present and
\* prompt_tokens > max_tokens > 0; when usage is absent, prompt_tokens <=
\* max_tokens or max_tokens = 0 the result is the input with WasCompacted = false.
C31_TokenCompactsOnlyOverLimit ==
  TokenCompacted =>
    /\ compaction.response.WasCompacted => TokenLimitExceeded
    /\ ~TokenLimitExceeded =>
         /\ ~compaction.response.WasCompacted
         /\ ~compaction.response.err
         /\ compaction.response.StateMessages = compaction.request.StateMessages

\* a disabled limit with a usage above it and a history that could be trimmed
C31_Witness ==
  /\ TokenCompacted
  /\ compaction.components[1].max = 0
  /\ UsagePresent(compaction.request.LastAPIUsage)
  /\ compaction.request.LastAPIUsage.PromptTokens > 0
  /\ Len(compaction.request.StateMessages) > 2
  /\ ~compaction.response.WasCompacted
  /\ compaction.response.StateMessages = compaction.request.StateMessages


\* a CompositeCompactor over two compactors has returned
CompositeOfTwo == compaction.pc = "composite" /\ Len(compaction.components) = 2

\* C32: a composite compactor over [C1, C2] produces C1's result iff C1 would
\* compact the request; else C2's result, C2 applied to the same request, if
\* C2 compacts; else a response carrying the input history with WasCompacted
\* = false. A compactor's error is the composite's.
C32_CompositeFirstToCompact ==
  CompositeOfTwo =>
    LET req == compaction.request
        r1 == CompactWith(compaction.components[1], req)
        r2 == CompactWith(compaction.components[2], req)
    IN IF r1.err THEN compaction.response.err
       ELSE IF r1.WasCompacted THEN compaction.response = r1
       ELSE IF r2.err THEN compaction.response.err
       ELSE IF r2.WasCompacted THEN compaction.response = r2
       ELSE /\ ~compaction.response.err
            /\ ~compaction.response.WasCompacted
            /\ compaction.response.StateMessages = req.StateMessages

\* the token limit has no usage to go by and the message limit compacts
C32_Witness ==
  /\ CompositeOfTwo
  /\ compaction.components[1] = TokenLimitCompactor(LimitK)
  /\ compaction.components[2] = MessageLimitCompactor(LimitK)
  /\ compaction.response.WasCompacted
  /\ compaction.response.StateMessages # <<>>

\* a CompositeCompactionTrigger has returned
TriggerDone == compaction.pc = "trigger"

\* the answers of the triggers of the composite, asked one by one
TriggerSaysYes(i) == TriggerWith(compaction.components[i], compaction.request).response
TriggerFails(i) == TriggerWith(compaction.components[i], compaction.request).err

C34_BytesVerbatim ==
  codec.pc = "written" => codec.written = codec.bytes

\* C35: for any message m made by a factory or by UnmarshalMessage, the
\* bytes of m parse, and UnmarshalMessage of them gives a message with the
\* same bytes.
C35_MessageIdempotent ==
  /\ (codec.pc = "written" /\ codec.source \in {"factory", "unmarshal"}) =>
       ~unmarshalMessageFails(codec.written)
  /\ (codec.pc = "reread" /\ codec.source \in {"factory", "unmarshal"}) =>
       /\ MarshalJSON(codec.reread) = codec.written
       /\ codec.written = codec.message.rawJSON

\* a message read from bytes with a field the library does not know, written
\* and read back
C35_Witness ==
  /\ codec.pc = "reread"
  /\ codec.source = "unmarshal"
  /\ codec.bytes.extra = "reasoning"
  /\ codec.reread.rawJSON.extra = "reasoning"


\* the strings of the tool calls of this call: the arguments handed to the
\* runner and the contents of the tool messages made from the results
ToolStrings ==
  {executed[j].Args : j \in 1..Len(executed)}
  \cup {Content(messages[j]) : j \in {k \in 1..Len(messages) : Role(messages[k]) = RoleTool}}

\* C36: with LogToolArguments unset, no record sent to the system logger
\* during a call holds a tool call's arguments or a tool's result: no record
\* has a tool_args or response field, and none of the strings logged is one
\* of them.
C36_ToolDataLoggedOnlyWhenVerbose ==
  (op = "chat" /\ ~LogToolArguments) =>
    \A i \in 1..Len(log) :
      /\ "tool_args" \notin log[i].keys
      /\ "response" \notin log[i].keys
      /\ log[i].strings \cap ToolStrings = {}

\* with the flag unset, a tool ran and answered and another one failed; the
\* calls and the failure were logged
C36_Witness ==
  /\ op = "chat" /\ ~LogToolArguments
  /\ Len(executed) = 2
  /\ \E i \in 1..Len(log) : log[i].msg = "executing_tool_call"
  /\ \E i \in 1..Len(log) : log[i].msg = "tool_execution_error"
  /\ \E j \in 1..Len(messages) :
       Role(messages[j]) = RoleTool /\ Content(messages[j]) = ErrorText("boom")

RECURSIVE RunAlone(_, _)
\* the locals a call ends with when nothing else runs on the Chat: the
\* passes of its loop taken one after another over the backend's answers
RunAlone(c, outcomes) ==
  IF c.pc # "loop" THEN c
  ELSE IF ~(c.iteration < c.maxIter) THEN CallStep(c, [finish |-> "none", batch |-> <<>>])
  ELSE IF outcomes = <<>> THEN c
  ELSE RunAlone(CallStep(c, Head(outcomes)), Tail(outcomes))

\* what the finished call of caller p returns when it is run alone with the
\* same arguments and the same answers of the backend
ReturnedAlone(p) ==
  LET c == inflight[p]
  IN IF c.op = "append" THEN Success("", AppendToStateResult(c.state, c.request))
     ELSE RunAlone(CallEntered(c.state, c.request.messages, c.request.tools,
                               c.request.maxToolIterations), c.outcomes).result

\* C37: ChatWithState and AppendToState calls running at the same time on one
\* Chat are safe: no step of any call changes a configuration field of the
\* Chat, and whatever the others do meanwhile, a finished call has returned
\* what it returns when run alone with its arguments and backend answers.
C37_ConcurrentCallsSafe ==
  /\ [][config' = config]_vars
  /\ [](\A p \in Callers :
          inflight[p].pc \in {"return", "error"} => inflight[p].result = ReturnedAlone(p))

\* both callers came back from ChatWithState on the same stored conversation,
\* one after a round of tools and the other at once, while the compactor is
\* configured
C37_Witness ==
  /\ Compactor = "limit"
  /\ inflight["a"].op = "chat" /\ inflight["a"].pc = "return"
  /\ Len(inflight["a"].outcomes) = 2
  /\ inflight["b"].op = "chat" /\ inflight["b"].pc = "return"
  /\ Len(inflight["b"].outcomes) = 1
  /\ inflight["a"].state = inflight["b"].state
  /\ inflight["a"].state # NilState

\* the history the call was given
InputHistory == decodeState(state).messages

\* C38 as stated: with no compactor, the history of the state a successful
\* ChatWithState returns is the input history, whatever the roles of its
\* messages, then the options after the preamble, then the messages produced
\* during the call.
C38_HistoryNeverDropped ==
  (ChatSucceeded /\ Compactor = "none") =>
     ReturnedHistory = InputHistory \o Remainder(request.messages) \o Produced

\* C38 amended: with no compactor, the history of the state a successful
\* ChatWithState returns is the input history without the system messages at
\* its head, then the options after the preamble, then the messages produced
\* during the call.
C38_HistoryKeptAfterLeadingSystem ==
  (ChatSucceeded /\ Compactor = "none") =>
     ReturnedHistory = DropFirst(InputHistory, Len(Preamble(InputHistory)))
                         \o Remainder(request.messages) \o Produced

\* a stored history that AppendToState began with a system message went
\* through a successful call with a round of tools
C38_Witness ==
  /\ ChatSucceeded /\ Compactor = "none"
  /\ Len(InputHistory) = 2
  /\ Role(InputHistory[1]) = RoleSystem
  /\ origin = <<"append", "append">>
  /\ Len(finishes) = 2
  /\ Len(ReturnedHistory) < Len(InputHistory) + Len(Remainder(request.messages)) + Len(Produced)

\* the call returned the error of the iteration bound
BoundError == ChatDone /\ result.err.msg = "exceeded max tool iterations"

\* C39 as stated: ChatWithState calls the backend at least once before it
\* returns the error of the iteration bound, whatever the per-call option
\* (zero and negative values too) and whatever the MaxToolIterations field.
C39_BackendCalledBeforeBound ==
  BoundError => Len(finishes) >= 1

\* C39 amended: ChatWithState calls the backend at least once before it
\* returns the error of the iteration bound, for every positive value of the
\* per-call option and, when no option is given, for every value of the
\* MaxToolIterations field (zero and negative values too).
C39_BackendCalledBeforePositiveBound ==
  (BoundError /\ (request.maxToolIterations.set => request.maxToolIterations.val > 0)) =>
     Len(finishes) >= 1

\* no per-call option and a field below zero: the bound error came after
\* the ten backend calls of the default
C39_Witness ==
  /\ BoundError
  /\ ~request.maxToolIterations.set
  /\ MaxToolIterations < 0
  /\ Len(finishes) = DefaultMaxIterations

\* the tool messages of a list, in order
ToolMessagesOf(msgs) == SelectSeq(msgs, LAMBDA m : Role(m) = RoleTool)

\* the result of the i-th tool execution of this call was in the list handed
\* to the latest backend call, among the messages the call itself produced
Delivered(i) ==
  LET sent == ToolMessagesOf(DropFirst(lastCall, Len(firstCall)))
  IN i <= Len(sent) /\ ToolCallID(sent[i]) = executed[i].CallId

\* the i-th tool execution of this call answers the latest response
InLastBatch(i) ==
  /\ LastAssistant(messages) > 0
  /\ i > Len(executed) - Len(ToolCalls(messages[LastAssistant(messages)]))

\* C40 as stated: when ChatWithState has ended, the result of every tool it
\* executed was handed to a later backend call of the same call; no tool ran
\* in an iteration after which the bound error came without a backend call.
C40_ToolResultsDelivered ==
  ChatDone => \A i \in 1..Len(executed) : Delivered(i)

\* C40 amended: when ChatWithState has ended, the result of every tool it
\* executed was handed to a later backend call of the same call, except for
\* the tools executed in the last iteration the bound allows: those run, and
\* the call then returns the bound error without calling the backend again.
C40_ToolResultsDeliveredBeforeBound ==
  ChatDone =>
    \A i \in 1..Len(executed) : Delivered(i) \/ (BoundError /\ InLastBatch(i))

\* two tools ran in the first iteration, their results went to the second
\* backend call, and the call then ended at its bound of two
C40_Witness ==
  /\ BoundError
  /\ maxIter = 2
  /\ Len(executed) = 2
  /\ \A i \in 1..Len(executed) : Delivered(i)

====
